---------------------------- MODULE Spec2Model ----------------------------
(***************************************************************************)
(* A model of the TGC ingest pipeline: sitemap traversal                   *)
(* (src/src/scraper/sitemap.py), the crawl with its SIGINT checkpoint      *)
(* (src/scripts/run_ingest.py), the chunker (src/src/ingest/chunker.py)    *)
(* and the index builder (src/src/ingest/index_builder.py) writing the     *)
(* collection that the retriever (src/src/rag/retriever.py) reads.         *)
(*                                                                         *)
(* Python strings are TLA+ strings (TLC evaluates Len, \o, SubSeq on       *)
(* them).  An optional value (T | None) is a sequence: <<>> is None and     *)
(* <<v>> is the value v.                                                   *)
(* Python indexes from 0 and TLA+ from 1: s[a:b] is SubSeq(s, a+1, b).     *)
(***************************************************************************)
EXTENDS Integers, Sequences, FiniteSets, TLC

VARIABLES
    \* ---- fetch_all_urls (sitemap.py) ----
    site,               \* the web site: sitemap URL -> response to a GET
    max_sitemap_files,  \* the fetch budget: <<B>>, or <<>> for None
    spc,                \* position of fetch_all_urls
    to_fetch,           \* list of sitemap URLs still to fetch
    total_fetched,      \* the code's counter
    processed,          \* set of sitemap URLs already consumed
    all_urls,           \* leaf URLs collected so far
    futures,            \* the batch handed to the executor
    fetches,            \* sitemap URL -> number of GETs issued (root included)
    result,             \* <<list>> once fetch_all_urls has returned, <<>> before
    path_i,             \* which of SITEMAP_PATHS the for loop of line 153 is at
    sitemap_url,        \* sitemap_url (line 151): <<>> is None
    requested,          \* the URLs the for loop of line 153 has sent a GET to, in order
    expanded,           \* sitemap URL -> number of times its document's URLs were taken
    \* ---- main and the SIGINT handlers (run_ingest.py) ----
    urls,               \* the URL list that is crawled
    web,                \* URL -> what a GET of the article page yields
    workers,            \* max(1, args.workers)
    dry_run,            \* args.dry_run
    api_key,            \* whether OPENAI_API_KEY is set
    pc,                 \* position of the main thread (in main or in a handler)
    inHandler,          \* the main thread is running _save_partial_and_exit
    handler,            \* the installed SIGINT handler
    saving,             \* _state["saving"]
    articles,           \* the articles list (shared with _state["articles"])
    seq_i,              \* index i of the sequential crawl loop (0-based)
    tasks,              \* the pool's futures, one per URL
    gets,               \* URL -> number of GETs issued for the article page
    all_chunks,         \* all_chunks of main or of the handler
    embeddings,         \* embeddings of main or of the handler
    embed_start,        \* offset start of the embedding loop
    embed_calls,        \* calls of embed_batch made so far, by main or by the handler
    add_start,          \* offset of the loop of add_chunks
    collection,         \* the persisted collection "tgc-articles"
    coll0,              \* the collection as it was when the run began
    obs,                \* what a concurrent reader last observed
    sigCount,           \* SIGINTs delivered so far
    sigPhase,           \* where the main thread was at the first SIGINT
    snap,               \* <<articles>> as they were at the first SIGINT
    sig2,               \* a SIGINT arrived while saving was set
    saves,              \* times the handler went past its re-entry guard
    exit_via,           \* how the main thread ended ("" while it runs)
    \* ---- one call of chunk_article (chunker.py) ----
    ck_article,         \* the Article passed in
    ck_pc,              \* position in chunk_article
    ck_content,         \* content (line 46)
    ck_start,           \* start
    ck_idx,             \* idx
    ck_chunks,          \* chunks
    ck_spans,           \* for each chunk, where its text lies in content: <<from, to>>
    \* ---- one call of _filter_content_urls (sitemap.py) ----
    fl_urls,            \* the list passed in
    fl_pc,              \* "call" before the call, "returned" after it
    fl_result,          \* the list returned
    \* ---- the sequential loop and the rate limit of fetch_and_parse_article ----
    clock,              \* time.monotonic(), in half seconds
    last_fetch_time,    \* _last_fetch_time (parser.py line 175)
    rl_pc,              \* position in the loop and in fetch_and_parse_article
    rl_n,               \* len(urls)
    rl_i,               \* i of the loop of run_ingest.py line 144
    starts,             \* the clock at the start of each fetch so far
    in_flight,          \* GETs sent and not yet answered
    \* ---- one call of a method of Embedder under its @retry (embedder.py) ----
    em_fn,              \* the method called: "embed", "embed_batch" or "embed_async"
    em_empty,           \* embed_batch was given no text
    em_pc,              \* "attempt", "sleep", "returned" or "raised"
    em_attempt,         \* retry_state.attempt_number
    em_outcome,         \* how the last attempt ended: "ok" or the class of its exception
    em_wait,            \* seconds the wait function answered for the sleep in progress
    em_retried,         \* the exception classes a new attempt was made after
    em_api_calls,       \* calls of embeddings.create made so far
    \* ---- one call of parse_article (parser.py) ----
    pa_page,            \* the page: what each selector and each metadata source yields
    pa_pc,              \* position in parse_article
    pa_sel,             \* how many selectors the loop of line 149 has been through
    pa_broke,           \* the loop left through the break of line 157
    pa_title,           \* title
    pa_author,          \* author
    pa_section,         \* section
    pa_date,            \* date
    pa_body,            \* body
    pa_result,          \* <<Article>> or <<>> for None, once parse_article has returned
    \* ---- api.py, rag/retriever.py, rag/answer.py ----
    ak_key,             \* settings.openai_api_key is non-empty
    ak_path,            \* settings.chroma_path exists
    ak_state_rag,       \* app.state.rag: "unset" (no lifespan), "none" or "deps"
    ak_entry,           \* "post_ask" (POST /ask, ask_async) or "library" (Retriever.retrieve, ask)
    ak_req,             \* the request: query, n_chunks, where, where_document
    ak_docs,            \* the collection's documents, nearest to the query first
    ak_pc,              \* where the call stands
    ak_last,            \* the step that ran last
    ak_query,           \* body.query after its validator
    ak_n,               \* body.n_chunks after its validator
    ak_chunks,          \* chunks
    ak_answer,          \* answer_text
    ak_status,          \* the HTTP status of the response, 0 before there is one
    ak_raised,          \* the exception a library call left with, "" if none
    ak_response,        \* <<AskResponse>> once returned
    ak_store_queries,   \* the n_results of each collection.query made
    ak_chat_calls       \* the number of chat.completions.create calls made

smVars == <<site, max_sitemap_files, spc, to_fetch, total_fetched, processed,
            all_urls, futures, fetches, result, path_i, sitemap_url, requested,
            expanded>>

inVars == <<urls, web, workers, dry_run, api_key, pc, inHandler, handler, saving,
            articles, seq_i, tasks, gets, all_chunks, embeddings, embed_start, embed_calls,
            add_start, collection, coll0, obs, sigCount, sigPhase, snap, sig2, saves, exit_via>>

ckVars == <<ck_article, ck_pc, ck_content, ck_start, ck_idx, ck_chunks, ck_spans>>

flVars == <<fl_urls, fl_pc, fl_result>>

rlVars == <<clock, last_fetch_time, rl_pc, rl_n, rl_i, starts, in_flight>>

emVars == <<em_fn, em_empty, em_pc, em_attempt, em_outcome, em_wait, em_retried,
            em_api_calls>>

paVars == <<pa_page, pa_pc, pa_sel, pa_broke, pa_title, pa_author, pa_section, pa_date,
            pa_body, pa_result>>

akVars == <<ak_key, ak_path, ak_state_rag, ak_entry, ak_req, ak_docs, ak_pc, ak_last, ak_query,
            ak_n,            ak_chunks, ak_answer, ak_status, ak_raised, ak_response, ak_store_queries,
            ak_chat_calls>>

vars == <<smVars, inVars, ckVars, flVars, rlVars, emVars, paVars, akVars>>

\* the variables of a part of the program that a specification does not run
IdleSitemap ==
    /\ site = <<>> /\ max_sitemap_files = <<>> /\ spc = "idle" /\ to_fetch = <<>>
    /\ total_fetched = 0 /\ processed = {} /\ all_urls = <<>> /\ futures = <<>>
    /\ fetches = <<>> /\ result = <<>> /\ path_i = 1 /\ sitemap_url = <<>>
    /\ requested = <<>> /\ expanded = <<>>

IdleIngest ==
    /\ urls = <<>> /\ web = <<>> /\ workers = 1 /\ dry_run = FALSE /\ api_key = FALSE
    /\ pc = "idle" /\ inHandler = FALSE /\ handler = "default" /\ saving = FALSE
    /\ articles = <<>> /\ seq_i = 0 /\ tasks = <<>> /\ gets = <<>> /\ all_chunks = <<>>
    /\ embeddings = <<>> /\ embed_start = 0 /\ embed_calls = 0 /\ add_start = 0
    /\ collection = [exists |-> FALSE, recs |-> {}]
    /\ coll0 = [exists |-> FALSE, recs |-> {}] /\ obs = <<>>
    /\ sigCount = 0 /\ sigPhase = "" /\ snap = <<>> /\ sig2 = FALSE /\ saves = 0
    /\ exit_via = ""

IdleChunk ==
    /\ ck_article = <<>> /\ ck_pc = "idle" /\ ck_content = "" /\ ck_start = 0
    /\ ck_idx = 0 /\ ck_chunks = <<>> /\ ck_spans = <<>>

IdleFilter ==
    /\ fl_urls = <<>> /\ fl_pc = "idle" /\ fl_result = <<>>

IdleRateLimit ==
    /\ clock = 0 /\ last_fetch_time = 0 /\ rl_pc = "idle" /\ rl_n = 0 /\ rl_i = 0
    /\ starts = <<>> /\ in_flight = 0

IdleEmbed ==
    /\ em_fn = "" /\ em_empty = FALSE /\ em_pc = "idle" /\ em_attempt = 0
    /\ em_outcome = "" /\ em_wait = 0 /\ em_retried = {} /\ em_api_calls = 0

IdleParse ==
    /\ pa_page = <<>> /\ pa_pc = "idle" /\ pa_sel = 0 /\ pa_broke = FALSE
    /\ pa_title = "" /\ pa_author = "" /\ pa_section = "" /\ pa_date = ""
    /\ pa_body = "" /\ pa_result = <<>>

IdleAsk ==
    /\ ak_key = FALSE /\ ak_path = FALSE /\ ak_state_rag = "unset" /\ ak_entry = ""
    /\ ak_req = <<>> /\ ak_docs = <<>> /\ ak_pc = "idle" /\ ak_last = "" /\ ak_query = "" /\ ak_n = 0
    /\ ak_chunks = <<>> /\ ak_answer = "" /\ ak_status = 0 /\ ak_raised = ""
    /\ ak_response = <<>> /\ ak_store_queries = <<>> /\ ak_chat_calls = 0

None == <<>>
Some(v) == <<v>>
Val(o) == o[1]

(***************************************************************************)
(* Helpers on numbers, sequences and strings.                              *)
(***************************************************************************)
Min2(a, b) == IF a <= b THEN a ELSE b
Max2(a, b) == IF a >= b THEN a ELSE b

\* s[:n] of Python, n >= 0
Take(s, n) == SubSeq(s, 1, Min2(n, Len(s)))
\* s[n:] of Python, n >= 0
Drop(s, n) == SubSeq(s, n + 1, Len(s))

Range(s) == {s[i] : i \in 1..Len(s)}

RECURSIVE SumOver(_, _)
SumOver(S, f) ==
    IF S = {} THEN 0
    ELSE LET x == CHOOSE y \in S : TRUE IN f[x] + SumOver(S \ {x}, f)

StartsWith(s, p) == Len(s) >= Len(p) /\ SubSeq(s, 1, Len(p)) = p
EndsWith(s, p) == Len(s) >= Len(p) /\ SubSeq(s, Len(s) - Len(p) + 1, Len(s)) = p
Contains(s, p) == \E i \in 1..(Len(s) - Len(p) + 1) : SubSeq(s, i, i + Len(p) - 1) = p

\* str.rstrip("/")
RECURSIVE RStripSlash(_)
RStripSlash(s) ==
    IF Len(s) > 0 /\ SubSeq(s, Len(s), Len(s)) = "/"
    THEN RStripSlash(SubSeq(s, 1, Len(s) - 1))
    ELSE s

\* position (1-based) of the first occurrence of p in s at or after from, 0 if none
FindFrom(s, p, from) ==
    LET hits == {i \in from..(Len(s) - Len(p) + 1) : SubSeq(s, i, i + Len(p) - 1) = p}
    IN IF hits = {} THEN 0 ELSE CHOOSE i \in hits : \A j \in hits : i <= j

\* s * n of Python: n copies of the string s
RECURSIVE Rep(_, _)
Rep(s, n) ==
    IF n <= 0 THEN ""
    ELSE LET h == Rep(s, n \div 2)
         IN IF n % 2 = 0 THEN h \o h ELSE h \o h \o s

\* str.lower() on ASCII
UpperLetters == "ABCDEFGHIJKLMNOPQRSTUVWXYZ"
LowerLetters == "abcdefghijklmnopqrstuvwxyz"
LowerChar(c) ==
    LET at == FindFrom(UpperLetters, c, 1)
    IN IF at = 0 THEN c ELSE SubSeq(LowerLetters, at, at)

RECURSIVE Lower(_)
Lower(s) == IF s = "" THEN "" ELSE LowerChar(SubSeq(s, 1, 1)) \o Lower(SubSeq(s, 2, Len(s)))

\* urlparse(url).path for "scheme://netloc/path?query#fragment"
UrlPath(url) ==
    LET sch == FindFrom(url, "://", 1)
        afterNet == IF sch = 0 THEN 1 ELSE sch + 3
        slash == IF sch = 0 THEN 1 ELSE FindFrom(url, "/", afterNet)
        q == FindFrom(url, "?", afterNet)
        h == FindFrom(url, "#", afterNet)
        stop == IF q = 0 /\ h = 0 THEN Len(url) + 1
                ELSE IF q = 0 THEN h ELSE IF h = 0 THEN q ELSE Min2(q, h)
    IN IF slash = 0 \/ slash >= stop THEN "" ELSE SubSeq(url, slash, stop - 1)

(***************************************************************************)
(* chunker.py                                                              *)
(***************************************************************************)
CHUNK_CHARS == 2400
OVERLAP_CHARS == 400
MIN_ARTICLE_CHARS == 800

\* the character at 0-based position i of s
CharAt(s, i) == SubSeq(s, i + 1, i + 1)

\* the characters str.strip() removes
IsSpace(c) == c \in {" ", "\n", "\t", "\r"}

\* str.rfind(p): the 0-based position of the last occurrence of p in s, or -1.
\* k counts positions back from the last one where p could start.
RFind(s, p) ==
    LET last == Len(s) - Len(p)
        At(k) == SubSeq(s, last - k + 1, last - k + Len(p)) = p
    IN IF last < 0 \/ ~\E k \in 0..last : At(k) THEN -1
       ELSE last - (CHOOSE k \in 0..last : At(k) /\ \A j \in 0..(k - 1) : ~At(j))

\* str.strip()
Strip(s) ==
    LET n == Len(s)
        NonSp(i) == ~IsSpace(SubSeq(s, i, i))
    IN IF ~\E i \in 1..n : NonSp(i) THEN ""
       ELSE LET lo == CHOOSE i \in 1..n : NonSp(i) /\ \A j \in 1..(i - 1) : ~NonSp(j)
                back == CHOOSE k \in 0..(n - 1) :
                            NonSp(n - k) /\ \A j \in 0..(k - 1) : ~NonSp(n - j)
            IN SubSeq(s, lo, n - back)

\* a _find_break that compares with the middle of the segment it is given
\* (C12 rests on the fixed CHUNK_CHARS // 2 of line 34)
find_break_Midpoint(text, start, end) ==
    LET segment == SubSeq(text, start + 1, end)
        last_period == RFind(segment, ". ")
        last_newline == RFind(segment, "\n\n")
        break_rel == Max2(last_period, last_newline)
    IN IF break_rel > (end - start) \div 2 THEN start + break_rel + 1 ELSE end

\* a _find_break that cuts at the last boundary wherever it lies in the
\* segment (C35 rests on the threshold of line 34)
find_break_AnyBoundary(text, start, end) ==
    LET segment == SubSeq(text, start + 1, end)
        last_period == RFind(segment, ". ")
        last_newline == RFind(segment, "\n\n")
        break_rel == Max2(last_period, last_newline)
    IN IF break_rel >= 0 THEN start + break_rel + 1 ELSE end

\* _find_break
find_break(text, start, end) ==
    LET segment == SubSeq(text, start + 1, end)
        last_period == RFind(segment, ". ")
        last_newline == RFind(segment, "\n\n")
        break_rel == Max2(last_period, last_newline)
    IN IF break_rel > CHUNK_CHARS \div 2 THEN start + break_rel + 1 ELSE end

\* a Chunk numbered from 1 (C11 and C13 rest on idx starting at 0)
MkChunk_OneBased(article, text, idx) ==
    [text |-> text, title |-> article.title, author |-> article.author,
     section |-> article.section, date |-> article.date,
     source_url |-> article.url, chunk_index |-> idx + 1]

\* Chunk(text=..., chunk_index=..., **metadata)
MkChunk(article, text, idx) ==
    [text |-> text, title |-> article.title, author |-> article.author,
     section |-> article.section, date |-> article.date,
     source_url |-> article.url, chunk_index |-> idx]

\* one turn of the while loop of chunk_article, from the window start and the
\* next index: the cut, the trimmed text, and the next window's start
WindowEnd(content, start) == Min2(start + CHUNK_CHARS, Len(content))
BreakAt(content, start) == find_break(content, start, WindowEnd(content, start))
WindowText(content, start) == Strip(SubSeq(content, start + 1, BreakAt(content, start)))
\* a loop that starts the next window at the cut, without the step back of
\* line 84 (C10 rests on it)
NextStart_NoOverlap(content, start) ==
    LET break_at == BreakAt(content, start)
    IN IF break_at < Len(content) THEN break_at ELSE Len(content)

NextStart(content, start) ==
    LET break_at == BreakAt(content, start)
    IN IF break_at < Len(content) THEN break_at - OVERLAP_CHARS ELSE Len(content)

\* the while loop of chunk_article (lines 71-84)
RECURSIVE ChunkLoop(_, _, _, _, _)
ChunkLoop(article, content, start, idx, chunks) ==
    IF ~(start < Len(content)) THEN chunks
    ELSE LET text == WindowText(content, start)
         IN IF text # ""
            THEN ChunkLoop(article, content, NextStart(content, start), idx + 1,
                           Append(chunks, MkChunk(article, text, idx)))
            ELSE ChunkLoop(article, content, NextStart(content, start), idx, chunks)

\* chunk_article
chunk_article(article) ==
    LET content == Strip(article.content)
    IN IF content = "" THEN <<>>
       ELSE IF Len(content) < MIN_ARTICLE_CHARS
            THEN <<MkChunk(article, content, 0)>>
            ELSE ChunkLoop(article, content, 0, 0, <<>>)

(***************************************************************************)
(* sitemap.py                                                              *)
(***************************************************************************)
SITEMAP_WORKERS == 10

INCLUDE_PREFIXES ==
    <<"/article/", "/articles/", "/essays/", "/essay/", "/blogs/", "/blog/",
      "/commentary/", "/topics/">>

EXCLUDE_PREFIXES ==
    <<"/churches/", "/store/", "/donate/", "/courses/", "/course/", "/auth",
      "/login", "/register", "/page/", "/feed/", "/tag/", "/author/", "/?">>

\* an exclude test that looks only at the beginning of the path (C17 rests on
\* the `in` of line 118)
ExcludeMatch_Prefix(path) ==
    \E k \in 1..Len(EXCLUDE_PREFIXES) : StartsWith(path, EXCLUDE_PREFIXES[k])

\* a key that keeps the trailing slash (C18 rests on the rstrip of line 122)
DedupKey_Whole(url) == url

\* key = url.rstrip("/") (line 122)
DedupKey(url) == RStripSlash(url)

IncludeMatch(path) ==
    \E k \in 1..Len(INCLUDE_PREFIXES) :
        \/ StartsWith(path, INCLUDE_PREFIXES[k])
        \/ path = RStripSlash(INCLUDE_PREFIXES[k])

ExcludeMatch(path) ==
    \E k \in 1..Len(EXCLUDE_PREFIXES) : Contains(path, EXCLUDE_PREFIXES[k])

\* the loop body of _filter_content_urls over urls[i..], with the result and
\* the seen set built so far
RECURSIVE FilterFrom(_, _, _, _)
FilterFrom(url_list, k, res, seen) ==
    IF k > Len(url_list) THEN res
    ELSE LET url == url_list[k]
             path == Lower(UrlPath(url))
             key == DedupKey(url)
         IN IF ~IncludeMatch(path) THEN FilterFrom(url_list, k + 1, res, seen)
            ELSE IF ExcludeMatch(path) THEN FilterFrom(url_list, k + 1, res, seen)
            ELSE IF key \in seen THEN FilterFrom(url_list, k + 1, res, seen)
            ELSE FilterFrom(url_list, k + 1, Append(res, url), seen \cup {key})

\* the include and exclude tests alone, every passing URL kept however often
\* it occurs
filter_content_urls_KeepsRepeats(url_list) ==
    SelectSeq(url_list, LAMBDA url : /\ IncludeMatch(Lower(UrlPath(url)))
                                     /\ ~ExcludeMatch(Lower(UrlPath(url))))

filter_content_urls(url_list) == FilterFrom(url_list, 1, <<>>, {})


(***************************************************************************)
(* The web site seen by fetch_all_urls.  A GET of a sitemap URL answers    *)
(* None (_fetch_xml caught a RequestException), an empty body, text that   *)
(* is not XML (ET.ParseError in both parsers), or a document: index is     *)
(* what _is_sitemap_index answers, locs what _parse_sitemap_urls answers.  *)
(***************************************************************************)
MaxRootChildren == 2
MaxBudget == 3

BaseUrl == "https://x.org"
SITEMAP_PATHS == <<"/wp-sitemap.xml", "/wp-sitemap-index.xml", "/sitemap.xml", "/sitemap_index.xml">>

\* urljoin(base_url, path) (line 154)
PathUrl(k) == BaseUrl \o SITEMAP_PATHS[k]
PathUrls == {PathUrl(k) : k \in 1..Len(SITEMAP_PATHS)}

RootUrl == "https://x.org/wp-sitemap.xml"
SmUrls == {"https://x.org/a.xml", "https://x.org/b.xml"}
AllSm == SmUrls \cup {RootUrl}

\* the content URLs a leaf sitemap lists
LeafPages(u) ==
    CASE u = "https://x.org/a.xml" ->
            <<"https://x.org/article/a1", "https://x.org/store/s1">>
      [] u = "https://x.org/b.xml" ->
            <<"https://x.org/article/b1/", "https://x.org/article/b1">>
      [] OTHER -> <<"https://x.org/essays/r1">>

SeqsUpTo(S, n) == UNION {[1..k -> S] : k \in 0..n}

\* got is FALSE when _fetch_xml answered None, body is FALSE when the text is
\* empty, parses is FALSE when ET.fromstring raises ParseError
NoResponse == [got |-> FALSE, body |-> FALSE, parses |-> FALSE, index |-> FALSE, locs |-> <<>>]
EmptyBody == [got |-> TRUE, body |-> FALSE, parses |-> FALSE, index |-> FALSE, locs |-> <<>>]
Malformed == [got |-> TRUE, body |-> TRUE, parses |-> FALSE, index |-> FALSE, locs |-> <<>>]
IndexDoc(l) == [got |-> TRUE, body |-> TRUE, parses |-> TRUE, index |-> TRUE, locs |-> l]
LeafDoc(u) == [got |-> TRUE, body |-> TRUE, parses |-> TRUE, index |-> FALSE,
               locs |-> LeafPages(u)]

\* the root index lists up to MaxRootChildren sitemaps, repeats allowed; an
\* inner index lists none or one (itself, the root or the other one)
RootLists == SeqsUpTo(AllSm, MaxRootChildren)
InnerLists == {<<>>} \cup {<<u>> : u \in AllSm}

RootResponses == {LeafDoc(RootUrl)} \cup {IndexDoc(l) : l \in RootLists}
Responses(u) ==
    {NoResponse, Malformed, LeafDoc(u)} \cup {IndexDoc(l) : l \in InnerLists}

Budgets == {None} \cup {Some(b) : b \in 1..MaxBudget}

\* _fetch_xml / _fetch_one_sitemap: one GET of url
fetch_xml(url) == site[url]

\* _parse_sitemap_urls
parse_sitemap_urls(xml) == xml.locs

\* _is_sitemap_index
is_sitemap_index(xml) == xml.index

\* what the first of SITEMAP_PATHS can answer when it is no document, and
\* what the paths after it can answer
RootFailures == {NoResponse, EmptyBody, Malformed}
LaterPaths == PathUrls \ {RootUrl}
LaterResponses(u) == {NoResponse, Malformed, LeafDoc(u)}

\* the site: r at the first path, c at the sitemaps below it, o at the other paths
SiteOf(r, c, o) ==
    [u \in AllSm \cup PathUrls |-> IF u = RootUrl THEN r ELSE IF u \in SmUrls THEN c[u] ELSE o[u]]

\* either the first path answers a document, over any sitemaps below it and
\* with any budget, or it does not and the other paths answer anything
InitSitemap ==
    /\ \/ \E r \in RootResponses :
          \E c \in {f \in [SmUrls -> UNION {Responses(u) : u \in SmUrls}] :
                        \A u \in SmUrls : f[u] \in Responses(u)} :
             /\ site = SiteOf(r, c, [u \in LaterPaths |-> LeafDoc(u)])
             /\ max_sitemap_files \in Budgets
       \/ \E r \in RootFailures :
          \E o \in {f \in [LaterPaths -> UNION {LaterResponses(u) : u \in LaterPaths}] :
                        \A u \in LaterPaths : f[u] \in LaterResponses(u)} :
             /\ site = SiteOf(r, [u \in SmUrls |-> NoResponse], o)
             /\ max_sitemap_files = None
    /\ spc = "probe"
    /\ path_i = 1
    /\ sitemap_url = None
    /\ requested = <<>>
    /\ to_fetch = <<>>
    /\ total_fetched = 0
    /\ processed = {}
    /\ all_urls = <<>>
    /\ futures = <<>>
    /\ fetches = [u \in AllSm \cup PathUrls |-> 0]
    /\ expanded = [u \in AllSm \cup PathUrls |-> 0]
    /\ result = None
    /\ IdleIngest
    /\ IdleChunk
    /\ IdleFilter
    /\ IdleRateLimit
    /\ IdleEmbed
    /\ IdleParse
    /\ IdleAsk

\* if xml_text: (line 158), for what _fetch_xml returned
Truthy(xml) == xml.got /\ xml.body

\* lines 153-165: one turn of the for loop over SITEMAP_PATHS, and the return
\* of line 165 when the last path gave nothing
Probe ==
    /\ spc = "probe"
    /\ LET url == PathUrl(path_i)
           xml_text == fetch_xml(url)
       IN /\ fetches' = [fetches EXCEPT ![url] = @ + 1]
          /\ requested' = Append(requested, url)
          /\ IF Truthy(xml_text)
             THEN /\ sitemap_url' = Some(url)
                  /\ spc' = "root"
                  /\ UNCHANGED <<path_i, result>>
             ELSE IF path_i < Len(SITEMAP_PATHS)
             THEN /\ path_i' = path_i + 1
                  /\ UNCHANGED <<sitemap_url, spc, result>>
             ELSE /\ result' = Some(<<>>)
                  /\ spc' = "returned"
                  /\ UNCHANGED <<path_i, sitemap_url>>
    /\ UNCHANGED <<site, max_sitemap_files, expanded, to_fetch, total_fetched, processed, all_urls,
                   futures, inVars, ckVars, flVars, rlVars, emVars, paVars, akVars>>

\* lines 167-177, with the xml_text of the entry point
ParseRoot ==
    /\ spc = "root"
    /\ LET xml_text == site[Val(sitemap_url)]
           urls_from_root == parse_sitemap_urls(xml_text)
       IN IF ~is_sitemap_index(xml_text)
          THEN /\ result' = Some(filter_content_urls(urls_from_root))
               /\ spc' = "returned"
               /\ UNCHANGED <<to_fetch, total_fetched>>
          ELSE /\ to_fetch' = IF max_sitemap_files # None
                              THEN Take(urls_from_root, Max2(1, Val(max_sitemap_files) - 1))
                              ELSE urls_from_root
               /\ total_fetched' = 1
               /\ spc' = "loop"
               /\ UNCHANGED result
    /\ expanded' = [expanded EXCEPT ![Val(sitemap_url)] = @ + 1]
    /\ UNCHANGED <<site, max_sitemap_files, processed, all_urls, futures, fetches, path_i,
                   sitemap_url, requested, inVars, ckVars, flVars, rlVars, emVars, paVars, akVars>>

\* lines 180-198: one turn of the while loop up to the submission of the batch;
\* the loop's exit (empty list, or budget reached) returns the filtered URLs
NextBatch ==
    /\ spc = "loop"
    /\ IF to_fetch = <<>> \/ (max_sitemap_files # None /\ total_fetched >= Val(max_sitemap_files))
       THEN /\ result' = Some(filter_content_urls(all_urls))
            /\ spc' = "returned"
            /\ UNCHANGED <<to_fetch, futures>>
       ELSE LET batch_size ==
                    Min2(Min2(SITEMAP_WORKERS * 2, Len(to_fetch)),
                         IF max_sitemap_files # None /\ Val(max_sitemap_files) # 0
                         THEN Val(max_sitemap_files) - total_fetched
                         ELSE Len(to_fetch))
            IN /\ futures' = [i \in 1..batch_size |->
                                [url |-> to_fetch[i], st |-> "submitted", xml |-> NoResponse]]
               /\ to_fetch' = Drop(to_fetch, batch_size)
               /\ spc' = "batch"
               /\ UNCHANGED result
    /\ UNCHANGED <<site, max_sitemap_files, expanded, total_fetched, processed, all_urls, fetches,
                   path_i, sitemap_url, requested, inVars, ckVars, flVars, rlVars, emVars, paVars, akVars>>

\* a pool worker runs _fetch_one_sitemap for one submitted future
WorkerFetch(i) ==
    /\ spc = "batch"
    /\ futures[i].st = "submitted"
    /\ futures' = [futures EXCEPT ![i].st = "done", ![i].xml = fetch_xml(futures[i].url)]
    /\ fetches' = [fetches EXCEPT ![futures[i].url] = @ + 1]
    /\ UNCHANGED <<site, max_sitemap_files, expanded, spc, to_fetch, total_fetched, processed,
                   all_urls, result, path_i, sitemap_url, requested, inVars, ckVars, flVars, rlVars, emVars, paVars, akVars>>

\* a loop body without the processed set of lines 201-203 (C15 rests on it);
\* it stops adding to a list of two, so that a sitemap that lists itself ends
consume_NoProcessed(i) ==
    LET url == futures[i].url
        xml == futures[i].xml
    IN /\ UNCHANGED processed
       /\ total_fetched' = total_fetched + 1
       /\ expanded' = IF xml.got THEN [expanded EXCEPT ![url] = @ + 1] ELSE expanded
       /\ IF ~xml.got
          THEN UNCHANGED <<to_fetch, all_urls>>
          ELSE LET locs == parse_sitemap_urls(xml)
               IN IF is_sitemap_index(xml)
                  THEN /\ UNCHANGED all_urls
                       /\ to_fetch' = IF Len(to_fetch) < 2 THEN to_fetch \o locs ELSE to_fetch
                  ELSE /\ all_urls' = all_urls \o locs
                       /\ UNCHANGED to_fetch

\* lines 199-215: the body of the as_completed loop for one finished future
consume(i) ==
    LET url == futures[i].url
        xml == futures[i].xml
    IN IF url \in processed
       THEN UNCHANGED <<processed, total_fetched, to_fetch, all_urls, expanded>>
       ELSE /\ processed' = processed \cup {url}
            /\ total_fetched' = total_fetched + 1
            /\ expanded' = IF xml.got THEN [expanded EXCEPT ![url] = @ + 1] ELSE expanded
            /\ IF ~xml.got
               THEN UNCHANGED <<to_fetch, all_urls>>
               ELSE LET locs == parse_sitemap_urls(xml)
                    IN IF is_sitemap_index(xml)
                       THEN /\ UNCHANGED all_urls
                            /\ IF max_sitemap_files # None
                               THEN LET remaining ==
                                            Max2(0, Val(max_sitemap_files) - total_fetched'
                                                    - Len(to_fetch))
                                    IN to_fetch' = IF remaining > 0
                                                   THEN to_fetch \o Take(locs, remaining)
                                                   ELSE to_fetch
                               ELSE to_fetch' = to_fetch \o locs
                       ELSE /\ all_urls' = all_urls \o locs
                            /\ UNCHANGED to_fetch

\* a loop in which a failed fetch raises out of fetch_all_urls (C16 rests on
\* the continue of lines 205-206)
Consume_RaiseOnFailure(i) ==
    /\ spc = "batch"
    /\ futures[i].st = "done"
    /\ IF ~futures[i].xml.got
       THEN /\ spc' = "raised"
            /\ futures' = [futures EXCEPT ![i].st = "consumed"]
            /\ UNCHANGED <<processed, total_fetched, to_fetch, all_urls, expanded>>
       ELSE /\ consume(i)
            /\ LET fs == [futures EXCEPT ![i].st = "consumed"]
               IN /\ futures' = fs
                  /\ spc' = IF \A j \in 1..Len(fs) : fs[j].st = "consumed"
                            THEN "loop" ELSE "batch"
    /\ UNCHANGED <<site, max_sitemap_files, fetches, result, path_i, sitemap_url, requested,
                   inVars, ckVars, flVars, rlVars, emVars, paVars, akVars>>

Consume(i) ==
    /\ spc = "batch"
    /\ futures[i].st = "done"
    /\ consume(i)
    /\ LET fs == [futures EXCEPT ![i].st = "consumed"]
       IN /\ futures' = fs
          /\ spc' = IF \A j \in 1..Len(fs) : fs[j].st = "consumed" THEN "loop" ELSE "batch"
    /\ UNCHANGED <<site, max_sitemap_files, fetches, result, path_i, sitemap_url, requested,
                   inVars, ckVars, flVars, rlVars, emVars, paVars, akVars>>

NextSitemap ==
    \/ Probe
    \/ ParseRoot
    \/ NextBatch
    \/ \E i \in 1..Len(futures) : WorkerFetch(i)
    \/ \E i \in 1..Len(futures) : Consume(i)

SpecSitemap == InitSitemap /\ [][NextSitemap]_vars

\* the GETs of sitemap documents issued so far, the root's included
TotalGets == SumOver(AllSm, fetches)

(***************************************************************************)
(* Claims about fetch_all_urls.                                            *)
(***************************************************************************)

\* C1: with a budget B >= 1 and an index as root, the number of sitemap
\* documents fetched (GETs issued, the root's included) never exceeds B,
\* whatever the graph (child lists may repeat a URL) and the completion order.
C1_BudgetCapsGets ==
    (max_sitemap_files # None /\ is_sitemap_index(site[RootUrl]))
        => TotalGets <= Val(max_sitemap_files)

(***************************************************************************)
(* The article pages, the embedder and the collection.                     *)
(***************************************************************************)
MaxSignals == 2
\* EMBED_BATCH_SIZE is 100 and CHROMA_ADD_BATCH_SIZE 5000 in the source; the
\* model runs the same loops with batches of BatchScale items, so that a run of
\* a few chunks takes more than one batch.
BatchScale == 2

EMBED_BATCH_SIZE == BatchScale
CHROMA_ADD_BATCH_SIZE == BatchScale

U1 == "https://x.org/article/a1"
U2 == "https://x.org/article/b1"
U3 == "https://x.org/essays/c1"
UGone == "https://x.org/article/gone"
PageUrls == {U1, U2, U3}

\* the body text parse_article extracts from the page of each URL: 150
\* characters (one chunk), 2499 (two windows), 120 (one chunk)
PageContent(u) ==
    CASE u = U1 -> Rep("Grace. ", 21) \o "End"
      [] u = U2 -> Rep("word ", 499) \o "word"
      [] OTHER -> Rep("c", 120)

\* the Article parse_article builds (lines 165-172)
PageArticle(u) ==
    [url |-> u, title |-> "Untitled", author |-> "Unknown", section |-> "General",
     date |-> "", content |-> PageContent(u)]

\* what a GET of an article page yields: "error" is a requests.RequestException
\* (timeout, non-2xx, connection error), "reject" a page parse_article answers
\* None for, "ok" a page it answers an Article for
Outcomes == {"error", "reject", "ok"}

\* fetch_and_parse_article (lines 201-206): <<article>>, or <<>> for None
fetch_and_parse_article(u) == IF web[u] = "ok" THEN Some(PageArticle(u)) ELSE None

\* hashlib.sha256(source_url.encode()).hexdigest()[:12] of the modelled URLs
Sha12(u) ==
    CASE u = U1 -> "573e611d4937"
      [] u = U2 -> "3287b9b5882e"
      [] u = U3 -> "8bd910a78140"
      [] u = UGone -> "c1db58e6c3e2"

\* str(n) for the indexes the model reaches
Str(n) ==
    CASE n = 0 -> "0" [] n = 1 -> "1" [] n = 2 -> "2" [] n = 3 -> "3" [] n = 4 -> "4"
      [] n = 5 -> "5" [] n = 6 -> "6" [] n = 7 -> "7" [] n = 8 -> "8" [] n = 9 -> "9"

\* an ID made of the URL's hash alone (C22 rests on the index being part of it)
chunk_id_UrlOnly(source_url, chunk_index) == Sha12(source_url)

\* _chunk_id
chunk_id(source_url, chunk_index) == Sha12(source_url) \o "_" \o Str(chunk_index)

\* what the embedding provider computes for one input text
Embedding(text) == <<"embedding", text>>

\* Embedder.embed_batch (lines 55-64), when the API call succeeds
embed_batch(texts) ==
    [k \in 1..Len(texts) |->
        Embedding(IF Len(texts[k]) > 8000 THEN SubSeq(texts[k], 1, 8000) ELSE texts[k])]

\* the record add_chunks builds for one chunk and its embedding (lines 48-59)
Record(c, e) ==
    [id |-> chunk_id(c.source_url, c.chunk_index), embedding |-> e, document |-> c.text,
     metadata |-> [title |-> c.title, author |-> c.author, section |-> c.section,
                   date |-> c.date, source_url |-> c.source_url]]

NoCollection == [exists |-> FALSE, recs |-> {}]

\* a clear_and_add whose delete does nothing (C6 rests on the delete)
keep_collection(coll) == coll

\* client.delete_collection(COLLECTION_NAME) inside try/except (lines 73-76)
delete_collection(coll) == NoCollection

\* client.get_or_create_collection (lines 40-43)
get_or_create_collection(coll) == IF coll.exists THEN coll ELSE [exists |-> TRUE, recs |-> {}]

\* collection.add raises on a batch that repeats an ID or whose embeddings do
\* not match its ids in number
AddRaises(batch, batch_embs) ==
    \/ Len(batch_embs) # Len(batch)
    \/ \E a, b \in 1..Len(batch) :
          a # b /\ chunk_id(batch[a].source_url, batch[a].chunk_index)
                    = chunk_id(batch[b].source_url, batch[b].chunk_index)

\* collection.add (lines 60-65): records whose ID the collection already holds
\* are left as they are
collection_add(coll, batch, batch_embs) ==
    LET new == {Record(batch[k], batch_embs[k]) : k \in 1..Len(batch)}
        have == {r.id : r \in coll.recs}
    IN [exists |-> TRUE, recs |-> coll.recs \cup {r \in new : r.id \notin have}]

\* records an earlier run left: one of an article that is gone from the site,
\* one under the ID of a chunk of U1 with the text it had then
StaleRec ==
    [id |-> chunk_id(UGone, 0), embedding |-> Embedding("gone"), document |-> "gone",
     metadata |-> [title |-> "Gone", author |-> "Unknown", section |-> "General",
                   date |-> "", source_url |-> UGone]]
OldRec ==
    [id |-> chunk_id(U1, 0), embedding |-> Embedding("old"), document |-> "old",
     metadata |-> [title |-> "Untitled", author |-> "Unknown", section |-> "General",
                   date |-> "", source_url |-> U1]]

InitialCollections == {NoCollection, [exists |-> TRUE, recs |-> {StaleRec, OldRec}]}

\* what the sitemaps list before fetch_all_urls filters it: a page outside the
\* content sections, the same article twice, an article again after another
\* one
SitemapListings ==
    {<<"https://x.org/store/s1">>, <<U1, U1>>, <<U1, U2, U1>>, <<U2, U1, U2>>,
     <<U2, "https://x.org/store/s1", U3, U3>>}

\* URL lists fetch_all_urls can return, each the filtered form of a listing:
\* none, one, two in either order
UrlLists == {filter_content_urls(listing) : listing \in SitemapListings}

\* all_chunks as both main (lines 171-173) and the handler (57-59) build it
ChunksOf(arts) ==
    LET RECURSIVE Go(_)
        Go(k) == IF k > Len(arts) THEN <<>> ELSE chunk_article(arts[k]) \o Go(k + 1)
    IN Go(1)

\* the records clear_and_add is to leave for a list of chunks
RecordsOf(chunks) == {Record(chunks[k], Embedding(chunks[k].text)) : k \in 1..Len(chunks)}

(***************************************************************************)
(* run_ingest.py: main, the pool's workers, the SIGINT handlers; and a      *)
(* reader of the collection (retriever.py).  A SIGINT handler runs on the  *)
(* main thread and never returns to the code it interrupted (every path of *)
(* both handlers ends in sys.exit), so pc simply moves into the handler.   *)
(* sys.exit ends the main thread; the pool's workers finish the tasks      *)
(* already submitted before the process is gone.                           *)
(***************************************************************************)
\* --workers: 1 takes the sequential loop, more than 1 the pool
WorkerCounts == {1, 2}

cfgVars == <<urls, web, workers, dry_run, api_key, coll0>>
sigVars == <<sigCount, sigPhase, snap, sig2>>
embVars == <<all_chunks, embeddings, embed_start, embed_calls>>
crawlVars == <<articles, seq_i, tasks, gets>>

InitIngest ==
    /\ urls \in UrlLists
    /\ web \in [Range(urls) -> Outcomes]
    /\ workers \in WorkerCounts
    /\ dry_run \in BOOLEAN
    /\ api_key \in BOOLEAN
    /\ pc = "start"
    /\ inHandler = FALSE
    /\ handler = "default"
    /\ saving = FALSE
    /\ articles = <<>>
    /\ seq_i = 0
    /\ tasks = <<>>
    /\ gets = [u \in Range(urls) |-> 0]
    /\ all_chunks = <<>>
    /\ embeddings = <<>>
    /\ embed_start = 0
    /\ embed_calls = 0
    /\ add_start = 0
    /\ coll0 \in InitialCollections
    /\ collection = coll0
    /\ obs = <<>>
    /\ sigCount = 0
    /\ sigPhase = ""
    /\ snap = <<>>
    /\ sig2 = FALSE
    /\ saves = 0
    /\ exit_via = ""
    /\ IdleSitemap
    /\ IdleChunk
    /\ IdleFilter
    /\ IdleRateLimit
    /\ IdleEmbed
    /\ IdleParse
    /\ IdleAsk

\* sys.exit, or an exception that leaves main
Exit(how) == pc' = "exited" /\ exit_via' = how

\* the phase of the run a position of the main thread belongs to
Phase(p, h) ==
    IF h \/ p \in {"h_entry", "h_install", "h_guards", "h_chunk"} THEN "handler"
    ELSE IF p = "start" THEN "startup"
    ELSE IF p \in {"seq", "seq_wait", "submit", "conc"} THEN "crawl"
    ELSE "post_crawl"

\* lines 103-136: the API key check, the URL list, _state, signal.signal
Startup ==
    /\ pc = "start"
    /\ IF ~api_key /\ ~dry_run
       THEN Exit("no_api_key") /\ UNCHANGED <<handler, articles>>
       ELSE /\ handler' = "save_partial_and_exit"
            /\ articles' = <<>>
            /\ pc' = IF workers = 1 THEN "seq" ELSE "submit"
            /\ UNCHANGED exit_via
    /\ UNCHANGED <<smVars, ckVars, flVars, rlVars, emVars, paVars, akVars, cfgVars, sigVars, embVars, inHandler, saving, seq_i, tasks,
                   gets, add_start, collection, obs, saves>>

\* lines 144-146: the head of the sequential loop, up to the GET being sent
SeqNext ==
    /\ pc = "seq"
    /\ IF seq_i < Len(urls)
       THEN /\ gets' = [gets EXCEPT ![urls[seq_i + 1]] = @ + 1]
            /\ pc' = "seq_wait"
       ELSE /\ pc' = "parsed"
            /\ UNCHANGED gets
    /\ UNCHANGED <<smVars, ckVars, flVars, rlVars, emVars, paVars, akVars, cfgVars, sigVars, embVars, inHandler, handler, saving, articles,
                   seq_i, tasks, add_start, collection, obs, saves, exit_via>>

\* a sequential loop that a URL without an article ends (C9 rests on the
\* loop skipping it)
SeqFetchDone_Abort ==
    /\ pc = "seq_wait"
    /\ LET article == fetch_and_parse_article(urls[seq_i + 1])
       IN IF article # None
          THEN /\ articles' = Append(articles, Val(article))
               /\ seq_i' = seq_i + 1
               /\ pc' = "seq"
               /\ UNCHANGED exit_via
          ELSE Exit("crawl_aborted") /\ UNCHANGED <<articles, seq_i>>
    /\ UNCHANGED <<smVars, ckVars, flVars, rlVars, emVars, paVars, akVars, cfgVars, sigVars, embVars, inHandler, handler, saving, tasks,
                   gets, add_start, collection, obs, saves>>

\* a sequential loop that puts each article in front of the earlier ones
\* (C19 rests on the append of line 148)
SeqFetchDone_Prepend ==
    /\ pc = "seq_wait"
    /\ LET article == fetch_and_parse_article(urls[seq_i + 1])
       IN articles' = IF article # None THEN <<Val(article)>> \o articles ELSE articles
    /\ seq_i' = seq_i + 1
    /\ pc' = "seq"
    /\ UNCHANGED <<smVars, ckVars, flVars, rlVars, emVars, paVars, akVars, cfgVars, sigVars, embVars, inHandler, handler, saving, tasks,
                   gets, add_start, collection, obs, saves, exit_via>>

\* lines 146-150: fetch_and_parse_article returns, the article is appended
SeqFetchDone ==
    /\ pc = "seq_wait"
    /\ LET article == fetch_and_parse_article(urls[seq_i + 1])
       IN articles' = IF article # None THEN Append(articles, Val(article)) ELSE articles
    /\ seq_i' = seq_i + 1
    /\ pc' = "seq"
    /\ UNCHANGED <<smVars, ckVars, flVars, rlVars, emVars, paVars, akVars, cfgVars, sigVars, embVars, inHandler, handler, saving, tasks,
                   gets, add_start, collection, obs, saves, exit_via>>

\* lines 152-154: one task per URL is submitted to the pool
PoolSubmit ==
    /\ pc = "submit"
    /\ tasks' = [k \in 1..Len(urls) |-> "queued"]
    /\ pc' = "conc"
    /\ UNCHANGED <<smVars, ckVars, flVars, rlVars, emVars, paVars, akVars, cfgVars, sigVars, embVars, inHandler, handler, saving, articles,
                   seq_i, gets, add_start, collection, obs, saves, exit_via>>

\* a free worker takes the oldest queued task and sends its GET (_fetch, 138-139)
WorkerStart(k) ==
    /\ tasks[k] = "queued"
    /\ \A j \in 1..(k - 1) : tasks[j] # "queued"
    /\ Cardinality({j \in 1..Len(tasks) : tasks[j] = "running"}) < workers
    /\ tasks' = [tasks EXCEPT ![k] = "running"]
    /\ gets' = [gets EXCEPT ![urls[k]] = @ + 1]
    /\ UNCHANGED <<smVars, ckVars, flVars, rlVars, emVars, paVars, akVars, cfgVars, sigVars, embVars, pc, inHandler, handler, saving,
                   articles, seq_i, add_start, collection, obs, saves, exit_via>>

\* the task's fetch_and_parse_article returns and the future completes
WorkerDone(k) ==
    /\ tasks[k] = "running"
    /\ tasks' = [tasks EXCEPT ![k] = "done"]
    /\ UNCHANGED <<smVars, ckVars, flVars, rlVars, emVars, paVars, akVars, cfgVars, sigVars, embVars, pc, inHandler, handler, saving,
                   articles, seq_i, gets, add_start, collection, obs, saves, exit_via>>

\* lines 155-161: the as_completed loop takes one completed future
Collect(k) ==
    /\ pc = "conc"
    /\ tasks[k] = "done"
    /\ tasks' = [tasks EXCEPT ![k] = "consumed"]
    /\ LET article == fetch_and_parse_article(urls[k])
       IN articles' = IF article # None THEN Append(articles, Val(article)) ELSE articles
    /\ UNCHANGED <<smVars, ckVars, flVars, rlVars, emVars, paVars, akVars, cfgVars, sigVars, embVars, pc, inHandler, handler, saving,
                   seq_i, gets, add_start, collection, obs, saves, exit_via>>

\* line 153: the with block ends once as_completed has yielded every future
PoolExit ==
    /\ pc = "conc"
    /\ \A k \in 1..Len(tasks) : tasks[k] = "consumed"
    /\ pc' = "parsed"
    /\ UNCHANGED <<smVars, ckVars, flVars, rlVars, emVars, paVars, akVars, cfgVars, sigVars, embVars, crawlVars, inHandler, handler, saving,
                   add_start, collection, obs, saves, exit_via>>

\* a main that goes on with no article (C7 rests on the exit of line 168)
CheckArticles_Continue ==
    /\ pc = "parsed"
    /\ pc' = "chunk"
    /\ UNCHANGED <<smVars, ckVars, flVars, rlVars, emVars, paVars, akVars, cfgVars, sigVars, embVars, crawlVars, inHandler, handler, saving,
                   add_start, collection, obs, saves, exit_via>>

\* lines 163-168
CheckArticles ==
    /\ pc = "parsed"
    /\ IF articles = <<>> THEN Exit("no_articles") ELSE pc' = "chunk" /\ UNCHANGED exit_via
    /\ UNCHANGED <<smVars, ckVars, flVars, rlVars, emVars, paVars, akVars, cfgVars, sigVars, embVars, crawlVars, inHandler, handler, saving,
                   add_start, collection, obs, saves>>

\* a main without the return of lines 176-178 (C24 rests on it)
ChunkAll_NoDryRun ==
    /\ pc = "chunk"
    /\ all_chunks' = ChunksOf(articles)
    /\ embeddings' = <<>>
    /\ embed_start' = 0
    /\ UNCHANGED embed_calls
    /\ pc' = "embed"
    /\ UNCHANGED exit_via
    /\ UNCHANGED <<smVars, ckVars, flVars, rlVars, emVars, paVars, akVars, cfgVars, sigVars, crawlVars, inHandler, handler, saving,
                   add_start, collection, obs, saves>>

\* lines 170-182
ChunkAll ==
    /\ pc = "chunk"
    /\ all_chunks' = ChunksOf(articles)
    /\ embeddings' = <<>>
    /\ embed_start' = 0
    /\ UNCHANGED embed_calls
    /\ IF dry_run THEN Exit("dry_run") ELSE pc' = "embed" /\ UNCHANGED exit_via
    /\ UNCHANGED <<smVars, ckVars, flVars, rlVars, emVars, paVars, akVars, cfgVars, sigVars, crawlVars, inHandler, handler, saving,
                   add_start, collection, obs, saves>>

\* a handler that writes with add_chunks, without the delete of clear_and_add
\* (C5 rests on line 71 calling clear_and_add)
EmbedNext_HandlerAdds ==
    /\ pc = "embed"
    /\ pc' = IF embed_start < Len(all_chunks) THEN "embed_wait"
             ELSE IF inHandler THEN "create" ELSE "delete"
    /\ embed_calls' = IF embed_start < Len(all_chunks) THEN embed_calls + 1 ELSE embed_calls
    /\ UNCHANGED <<smVars, ckVars, flVars, rlVars, emVars, paVars, akVars, cfgVars, sigVars, all_chunks, embeddings,
                   embed_start, crawlVars, inHandler, handler, saving, add_start, collection,
                   obs, saves, exit_via>>

\* lines 183-186 in main, 63-65 in the handler: the loop head; with a batch left,
\* embed_batch is called, otherwise the IndexBuilder is made (191-194, 69-70)
EmbedNext ==
    /\ pc = "embed"
    /\ pc' = IF embed_start < Len(all_chunks) THEN "embed_wait" ELSE "delete"
    /\ embed_calls' = IF embed_start < Len(all_chunks) THEN embed_calls + 1 ELSE embed_calls
    /\ UNCHANGED <<smVars, ckVars, flVars, rlVars, emVars, paVars, akVars, cfgVars, sigVars, all_chunks, embeddings,
                   embed_start, crawlVars, inHandler, handler, saving, add_start, collection,
                   obs, saves, exit_via>>

\* lines 186-188, 65-67: embed_batch returns the batch's embeddings
EmbedReturn ==
    /\ pc = "embed_wait"
    /\ LET batch == SubSeq(all_chunks, embed_start + 1,
                           Min2(embed_start + EMBED_BATCH_SIZE, Len(all_chunks)))
           batch_embs == embed_batch([k \in 1..Len(batch) |-> batch[k].text])
       IN embeddings' = embeddings \o batch_embs
    /\ embed_start' = embed_start + EMBED_BATCH_SIZE
    /\ pc' = "embed"
    /\ UNCHANGED embed_calls
    /\ UNCHANGED <<smVars, ckVars, flVars, rlVars, emVars, paVars, akVars, cfgVars, sigVars, crawlVars, all_chunks, inHandler, handler,
                   saving, add_start, collection, obs, saves, exit_via>>

\* embed_batch raises (its retries used up, or an error it does not retry):
\* main dies of it; the handler's except Exception (73-75) prints it and exits
EmbedRaise ==
    /\ pc = "embed_wait"
    /\ Exit(IF inHandler THEN "save_error" ELSE "embed_failed")
    /\ UNCHANGED <<smVars, ckVars, flVars, rlVars, emVars, paVars, akVars, cfgVars, sigVars, embVars, crawlVars, inHandler, handler, saving,
                   add_start, collection, obs, saves>>

\* clear_and_add, lines 73-76
DeleteCollection ==
    /\ pc = "delete"
    /\ collection' = delete_collection(collection)
    /\ pc' = "create"
    /\ UNCHANGED <<smVars, ckVars, flVars, rlVars, emVars, paVars, akVars, cfgVars, sigVars, embVars, crawlVars, inHandler, handler, saving,
                   add_start, obs, saves, exit_via>>

\* add_chunks, lines 40-43
GetOrCreate ==
    /\ pc = "create"
    /\ collection' = get_or_create_collection(collection)
    /\ add_start' = 0
    /\ pc' = "add"
    /\ UNCHANGED <<smVars, ckVars, flVars, rlVars, emVars, paVars, akVars, cfgVars, sigVars, embVars, crawlVars, inHandler, handler, saving,
                   obs, saves, exit_via>>

\* an add_chunks that takes each batch's embeddings from the head of the list
\* (C33 rests on line 47 slicing the embeddings as line 46 slices the chunks)
AddBatch_EmbsFromHead ==
    /\ pc = "add"
    /\ IF add_start < Len(all_chunks)
       THEN LET batch == SubSeq(all_chunks, add_start + 1,
                                Min2(add_start + CHROMA_ADD_BATCH_SIZE, Len(all_chunks)))
                batch_embs == SubSeq(embeddings, 1, Len(batch))
            IN IF AddRaises(batch, batch_embs)
               THEN /\ Exit(IF inHandler THEN "save_error" ELSE "add_failed")
                    /\ UNCHANGED <<collection, add_start>>
               ELSE /\ collection' = collection_add(collection, batch, batch_embs)
                    /\ add_start' = add_start + CHROMA_ADD_BATCH_SIZE
                    /\ UNCHANGED <<pc, exit_via>>
       ELSE /\ pc' = "written"
            /\ UNCHANGED <<collection, add_start, exit_via>>
    /\ UNCHANGED <<smVars, ckVars, flVars, rlVars, emVars, paVars, akVars, cfgVars, sigVars, embVars, crawlVars, inHandler, handler, saving,
                   obs, saves>>

\* add_chunks, lines 45-65: one turn of the loop, or its end
AddBatch ==
    /\ pc = "add"
    /\ IF add_start < Len(all_chunks)
       THEN LET batch == SubSeq(all_chunks, add_start + 1,
                                Min2(add_start + CHROMA_ADD_BATCH_SIZE, Len(all_chunks)))
                batch_embs == SubSeq(embeddings, add_start + 1,
                                     Min2(add_start + CHROMA_ADD_BATCH_SIZE, Len(embeddings)))
            IN IF AddRaises(batch, batch_embs)
               THEN /\ Exit(IF inHandler THEN "save_error" ELSE "add_failed")
                    /\ UNCHANGED <<collection, add_start>>
               ELSE /\ collection' = collection_add(collection, batch, batch_embs)
                    /\ add_start' = add_start + CHROMA_ADD_BATCH_SIZE
                    /\ UNCHANGED <<pc, exit_via>>
       ELSE /\ pc' = "written"
            /\ UNCHANGED <<collection, add_start, exit_via>>
    /\ UNCHANGED <<smVars, ckVars, flVars, rlVars, emVars, paVars, akVars, cfgVars, sigVars, embVars, crawlVars, inHandler, handler, saving,
                   obs, saves>>

\* line 197 in main; lines 72 and 75 in the handler
Finish ==
    /\ pc = "written"
    /\ Exit(IF inHandler THEN "saved" ELSE "done")
    /\ UNCHANGED <<smVars, ckVars, flVars, rlVars, emVars, paVars, akVars, cfgVars, sigVars, embVars, crawlVars, inHandler, handler, saving,
                   add_start, collection, obs, saves>>

\* a handler without the guard of lines 40-42 (C3 rests on it)
HEntry_NoGuard ==
    /\ pc = "h_entry"
    /\ saving' = TRUE
    /\ saves' = saves + 1
    /\ pc' = "h_install"
    /\ UNCHANGED <<smVars, ckVars, flVars, rlVars, emVars, paVars, akVars, cfgVars, sigVars, embVars, crawlVars, inHandler, handler,
                   add_start, collection, obs, exit_via>>

\* _save_partial_and_exit, lines 40-43
HEntry ==
    /\ pc = "h_entry"
    /\ IF saving
       THEN Exit("second_signal") /\ UNCHANGED <<saving, saves>>
       ELSE /\ saving' = TRUE
            /\ saves' = saves + 1
            /\ pc' = "h_install"
            /\ UNCHANGED exit_via
    /\ UNCHANGED <<smVars, ckVars, flVars, rlVars, emVars, paVars, akVars, cfgVars, sigVars, embVars, crawlVars, inHandler, handler,
                   add_start, collection, obs>>

\* _save_partial_and_exit, lines 44-49
HInstall ==
    /\ pc = "h_install"
    /\ handler' = "exit_immediately"
    /\ pc' = "h_guards"
    /\ UNCHANGED <<smVars, ckVars, flVars, rlVars, emVars, paVars, akVars, cfgVars, sigVars, embVars, crawlVars, inHandler, saving,
                   add_start, collection, obs, saves, exit_via>>

\* a handler that looks for the API key only, not for the dry run (C21 rests
\* on the dry_run of line 53)
HGuards_KeyOnly ==
    /\ pc = "h_guards"
    /\ IF articles = <<>> THEN Exit("skip_no_articles")
       ELSE IF ~api_key THEN Exit("skip_no_embed")
       ELSE pc' = "h_chunk" /\ UNCHANGED exit_via
    /\ UNCHANGED <<smVars, ckVars, flVars, rlVars, emVars, paVars, akVars, cfgVars, sigVars, embVars, crawlVars, inHandler, handler, saving,
                   add_start, collection, obs, saves>>

\* _save_partial_and_exit, lines 50-55
HGuards ==
    /\ pc = "h_guards"
    /\ IF articles = <<>> THEN Exit("skip_no_articles")
       ELSE IF dry_run \/ ~api_key THEN Exit("skip_no_embed")
       ELSE pc' = "h_chunk" /\ UNCHANGED exit_via
    /\ UNCHANGED <<smVars, ckVars, flVars, rlVars, emVars, paVars, akVars, cfgVars, sigVars, embVars, crawlVars, inHandler, handler, saving,
                   add_start, collection, obs, saves>>

\* a handler that chunks the first article only (C2 rests on the loop of 58-59)
HChunk_FirstOnly ==
    /\ pc = "h_chunk"
    /\ all_chunks' = ChunksOf(Take(articles, 1))
    /\ embeddings' = <<>>
    /\ embed_start' = 0
    /\ UNCHANGED embed_calls
    /\ pc' = "embed"
    /\ UNCHANGED <<smVars, ckVars, flVars, rlVars, emVars, paVars, akVars, cfgVars, sigVars, crawlVars, inHandler, handler, saving,
                   add_start, collection, obs, saves, exit_via>>

\* _save_partial_and_exit, lines 57-62
HChunk ==
    /\ pc = "h_chunk"
    /\ all_chunks' = ChunksOf(articles)
    /\ embeddings' = <<>>
    /\ embed_start' = 0
    /\ UNCHANGED embed_calls
    /\ pc' = "embed"
    /\ UNCHANGED <<smVars, ckVars, flVars, rlVars, emVars, paVars, akVars, cfgVars, sigVars, crawlVars, inHandler, handler, saving,
                   add_start, collection, obs, saves, exit_via>>

\* a process whose handler is installed from the start (C4 rests on line 135
\* being where it is installed)
OnSigint_AlwaysSave(h) == IF h = "exit_immediately" THEN "exit" ELSE "h_entry"

\* which routine a SIGINT starts on the main thread
OnSigint(h) ==
    CASE h = "save_partial_and_exit" -> "h_entry"
      [] h = "exit_immediately" -> "exit"
      [] OTHER -> "KeyboardInterrupt"

\* a SIGINT is delivered to the running main thread
Signal ==
    /\ pc \notin {"idle", "exited"}
    /\ sigCount < MaxSignals
    /\ sigCount' = sigCount + 1
    /\ sigPhase' = IF sigCount = 0 THEN Phase(pc, inHandler) ELSE sigPhase
    /\ snap' = IF sigCount = 0 THEN Some(articles) ELSE snap
    /\ sig2' = (sig2 \/ saving)
    /\ LET to == OnSigint(handler)
       IN IF to = "h_entry"
          THEN pc' = "h_entry" /\ inHandler' = TRUE /\ UNCHANGED exit_via
          ELSE /\ Exit(IF to = "exit" THEN "second_signal" ELSE "keyboard_interrupt")
               /\ UNCHANGED inHandler
    /\ UNCHANGED <<smVars, ckVars, flVars, rlVars, emVars, paVars, akVars, cfgVars, embVars, crawlVars, handler, saving, add_start,
                   collection, obs, saves>>

\* clear_and_add has deleted the collection and has not yet added its last batch
MidRebuild == pc = "create" \/ (pc = "add" /\ add_start < Len(all_chunks))

\* a reader that a rebuild in progress keeps out (C8 rests on there being no
\* such lock)
Retrieve_Locked ==
    /\ pc # "idle"
    /\ obs = None
    /\ ~MidRebuild
    /\ obs' = Some([during |-> MidRebuild, exists |-> collection.exists,
                    count |-> Cardinality(collection.recs)])
    /\ UNCHANGED <<smVars, ckVars, flVars, rlVars, emVars, paVars, akVars, cfgVars, sigVars, embVars, crawlVars, pc, inHandler, handler,
                   saving, add_start, collection, saves, exit_via>>

\* a reader (Retriever.__init__ and _query_with_embedding, retriever.py 14-31)
\* opens the collection and counts it, once; nothing makes it wait for the writer
Retrieve ==
    /\ pc # "idle"
    /\ obs = None
    /\ obs' = Some([during |-> MidRebuild, exists |-> collection.exists,
                    count |-> Cardinality(collection.recs)])
    /\ UNCHANGED <<smVars, ckVars, flVars, rlVars, emVars, paVars, akVars, cfgVars, sigVars, embVars, crawlVars, pc, inHandler, handler,
                   saving, add_start, collection, saves, exit_via>>

NextIngest ==
    \/ Startup
    \/ SeqNext
    \/ SeqFetchDone
    \/ PoolSubmit
    \/ \E k \in 1..Len(tasks) : WorkerStart(k)
    \/ \E k \in 1..Len(tasks) : WorkerDone(k)
    \/ \E k \in 1..Len(tasks) : Collect(k)
    \/ PoolExit
    \/ CheckArticles
    \/ ChunkAll
    \/ EmbedNext
    \/ EmbedReturn
    \/ EmbedRaise
    \/ DeleteCollection
    \/ GetOrCreate
    \/ AddBatch
    \/ Finish
    \/ HEntry
    \/ HInstall
    \/ HGuards
    \/ HChunk
    \/ Signal
    \/ Retrieve

SpecIngest == InitIngest /\ [][NextIngest]_vars

(***************************************************************************)
(* Claims about the ingest run (SpecIngest)                                *)
(***************************************************************************)
\* the first SIGINT came during the crawl, with an article accumulated, an API
\* key and no dry run
CrawlCheckpoint ==
    /\ sigPhase = "crawl"
    /\ Val(snap) # <<>>
    /\ api_key
    /\ ~dry_run

\* the texts of a list of chunks
Texts(chunks) == [k \in 1..Len(chunks) |-> chunks[k].text]

C3_SecondSignalAborts ==
    /\ saves <= 1
    /\ sig2 => /\ pc \in {"h_entry", "exited"}
               /\ pc = "exited" => exit_via = "second_signal"

\* a second SIGINT that arrived while the save was embedding: some chunk is
\* left without its embedding and nothing of the save reached the collection
C3_Witness ==
    /\ sig2
    /\ pc = "exited"
    /\ exit_via = "second_signal"
    /\ saves = 1
    /\ Len(embeddings) >= 1
    /\ Len(embeddings) < Len(all_chunks)
    /\ collection = coll0

\* C4 as stated: a first SIGINT that arrives after the crawl loop has ended
\* (during chunking, embedding or the index write of main) does not run the
\* checkpoint save.
C4_AsStated == sigPhase = "post_crawl" => saves = 0

\* C4: the checkpoint save is run by the first SIGINT that arrives at any point
\* from the installation of the handler (line 135) to the end of the process,
\* after the crawl loop as well as during it; a SIGINT before the installation
\* is a KeyboardInterrupt and runs no save.
C4_SaveTriggeredWhileInstalled ==
    /\ sigPhase = "startup" => (saves = 0 /\ exit_via = "keyboard_interrupt")
    /\ sigPhase \in {"crawl", "post_crawl"} => (inHandler /\ (pc = "h_entry" \/ saves = 1))
    /\ saves >= 1 => sigPhase \in {"crawl", "post_crawl"}

\* a SIGINT after the crawl whose checkpoint save ran to its end
C4_Witness ==
    /\ sigPhase = "post_crawl"
    /\ saves = 1
    /\ exit_via = "saved"

\* the IDs add_chunks gives a list of chunks
IdsOf(chunks) == {chunk_id(chunks[k].source_url, chunks[k].chunk_index) : k \in 1..Len(chunks)}

\* C5 as stated: after a checkpoint save taken in the crawl, every record the
\* collection held before and whose ID the save did not write is still there.
C5_AsStated ==
    (exit_via = "saved" /\ sigPhase = "crawl")
        => \A r \in coll0.recs : r.id \notin IdsOf(all_chunks) => r \in collection.recs

\* C5: the checkpoint save writes through clear_and_add as the normal path
\* does: from its delete on the collection holds no record from before the
\* run, and after a completed checkpoint it holds the checkpoint's chunks only.
C5_CheckpointClears ==
    /\ (inHandler /\ pc \in {"create", "add", "written"})
          => (coll0.recs \cap collection.recs = {}
              /\ collection.recs \subseteq RecordsOf(all_chunks))
    /\ exit_via = "saved" => collection.recs = RecordsOf(all_chunks)

\* a checkpoint saved over a collection that held a record of a vanished page
C5_Witness ==
    /\ exit_via = "saved"
    /\ sigPhase = "crawl"
    /\ StaleRec \in coll0.recs
    /\ StaleRec \notin collection.recs
    /\ collection.recs # {}

\* C6: when clear_and_add returns (in main or in the handler), the collection
\* exists and holds exactly one record per chunk given, under the chunk's ID,
\* and no record it held before, whether or not there was a collection.
C6_ClearAndAddExact ==
    pc = "written"
        => /\ collection.exists
           /\ collection.recs = RecordsOf(all_chunks)
           /\ Cardinality(collection.recs) = Len(all_chunks)
           /\ Cardinality(IdsOf(all_chunks)) = Len(all_chunks)
           /\ coll0.recs \cap collection.recs = {}

\* clear_and_add returned in a run that found no collection, three chunks written
C6_Witness ==
    /\ pc = "written"
    /\ coll0 = NoCollection
    /\ Len(all_chunks) = 3
    /\ Cardinality(collection.recs) = 3

\* C7: in a run without a SIGINT the collection is touched only once every
\* chunk of the run's articles has its embedding; a run that finds no article,
\* or in which an embedding call raises, ends with the collection as it was.
C7_ClearDeferred ==
    sigCount = 0
        => /\ (pc \in {"create", "add", "written"} \/ collection # coll0)
                => /\ articles # <<>>
                   /\ all_chunks = ChunksOf(articles)
                   /\ embeddings = embed_batch(Texts(all_chunks))
           /\ exit_via \in {"no_articles", "embed_failed", "dry_run", "no_api_key"}
                => collection = coll0

\* the second embedding call of a run raised; the old collection is intact
C7_Witness ==
    /\ sigCount = 0
    /\ exit_via = "embed_failed"
    /\ Len(embeddings) >= 1
    /\ coll0.exists
    /\ collection = coll0

\* C8: nothing keeps a reader out between the delete and the last add of
\* clear_and_add, and what it sees there is no collection, an empty one, or
\* fewer records than the chunks being written.
C8_RebuildNotAtomic ==
    /\ (MidRebuild /\ obs = None) => ENABLED Retrieve
    /\ MidRebuild => (~collection.exists \/ Cardinality(collection.recs) < Len(all_chunks))
    /\ (obs # None /\ Val(obs).during)
          => (~Val(obs).exists \/ Val(obs).count < Len(all_chunks))

\* a reader counted one batch of the three chunks being written
C8_Witness ==
    /\ obs # None
    /\ Val(obs).during
    /\ Val(obs).exists
    /\ Val(obs).count = CHROMA_ADD_BATCH_SIZE
    /\ Val(obs).count < Len(all_chunks)

\* how many of the articles have the URL u
ArticlesOf(u) == Cardinality({k \in 1..Len(articles) : articles[k].url = u})

\* C9: at the end of a crawl no SIGINT interrupted, sequential or pooled, the
\* list holds the Article of every URL whose fetch and parse succeeded, once,
\* and nothing else; every URL was sent one GET; and no exit of a run without
\* SIGINT comes out of the crawl.
C9_CrawlExact ==
    sigCount = 0
        => /\ pc = "parsed"
              => /\ \A k \in 1..Len(urls) :
                        /\ gets[urls[k]] = 1
                        /\ ArticlesOf(urls[k]) = IF web[urls[k]] = "ok" THEN 1 ELSE 0
                 /\ \A k \in 1..Len(articles) : articles[k] = PageArticle(articles[k].url)
                 /\ Len(articles) = Cardinality({u \in Range(urls) : web[u] = "ok"})
           /\ pc = "exited"
              => exit_via \in {"no_api_key", "no_articles", "dry_run", "embed_failed",
                               "add_failed", "done"}

\* a pooled crawl of two URLs, the first failing, that ended with the article
\* of the second
C9_Witness ==
    /\ sigCount = 0
    /\ pc = "parsed"
    /\ workers > 1
    /\ Len(urls) = 2
    /\ web[urls[1]] = "error"
    /\ web[urls[2]] = "ok"
    /\ Len(articles) = 1

(***************************************************************************)
(* chunk_article, one call, statement by statement (SpecChunk)             *)
(***************************************************************************)
MaxPieces == 3

\* the texts the contents are put together from: words and sentences parted
\* by single spaces, as parse_article leaves them (_strip_html), paragraphs
\* parted by blank lines, an unbroken run of letters, a run of blanks longer
\* than the overlap, and one as long as a window
Pieces ==
    {Rep("word ", 120), Rep("Sentence one. ", 60), Rep("line\n\n", 100),
     Rep("y", 2000), Rep(" ", OVERLAP_CHARS + 50), Rep(" ", CHUNK_CHARS)}

RECURSIVE Join(_)
Join(l) == IF l = <<>> THEN "" ELSE Head(l) \o Join(Tail(l))

ChunkContents == {Join(l) : l \in SeqsUpTo(Pieces, MaxPieces)}

\* how many whitespace characters s starts with, and ends with (s has another)
Lead(s) == (CHOOSE i \in 1..Len(s) : ~IsSpace(SubSeq(s, i, i))
                /\ \A j \in 1..(i - 1) : IsSpace(SubSeq(s, j, j))) - 1
Trail(s) == CHOOSE k \in 0..(Len(s) - 1) : ~IsSpace(SubSeq(s, Len(s) - k, Len(s) - k))
                /\ \A j \in 0..(k - 1) : IsSpace(SubSeq(s, Len(s) - j, Len(s) - j))

InitChunk ==
    /\ ck_article \in {[url |-> U1, title |-> "Long", author |-> "A", section |-> "S",
                        date |-> "", content |-> c] : c \in ChunkContents}
    /\ ck_pc = "call"
    /\ ck_content = ""
    /\ ck_start = 0
    /\ ck_idx = 0
    /\ ck_chunks = <<>>
    /\ ck_spans = <<>>
    /\ IdleSitemap
    /\ IdleIngest
    /\ IdleFilter
    /\ IdleRateLimit
    /\ IdleEmbed
    /\ IdleParse
    /\ IdleAsk

\* lines 46-69: the trim, the empty and the short article, the loop's start
ChunkEnter ==
    /\ ck_pc = "call"
    /\ ck_content' = Strip(ck_article.content)
    /\ ck_start' = 0
    /\ ck_idx' = 0
    /\ IF ck_content' = ""
       THEN ck_chunks' = <<>> /\ ck_spans' = <<>> /\ ck_pc' = "done"
       ELSE IF Len(ck_content') < MIN_ARTICLE_CHARS
       THEN /\ ck_chunks' = <<MkChunk(ck_article, ck_content', 0)>>
            /\ ck_spans' = <<<<0, Len(ck_content')>>>>
            /\ ck_pc' = "done"
       ELSE ck_chunks' = <<>> /\ ck_spans' = <<>> /\ ck_pc' = "loop"
    /\ UNCHANGED <<smVars, inVars, flVars, rlVars, emVars, paVars, akVars, ck_article>>

\* a loop that counts a window even when its trimmed text is empty (C13 rests
\* on idx += 1 being under the if of line 75)
ChunkStep_CountsEmpty ==
    /\ ck_pc = "loop"
    /\ ck_start < Len(ck_content)
    /\ LET break_at == BreakAt(ck_content, ck_start)
           window == SubSeq(ck_content, ck_start + 1, break_at)
           text == WindowText(ck_content, ck_start)
       IN IF text # ""
          THEN /\ ck_chunks' = Append(ck_chunks, MkChunk(ck_article, text, ck_idx))
               /\ ck_spans' = Append(ck_spans, <<ck_start + Lead(window),
                                                 break_at - Trail(window)>>)
          ELSE UNCHANGED <<ck_chunks, ck_spans>>
    /\ ck_idx' = ck_idx + 1
    /\ ck_start' = NextStart(ck_content, ck_start)
    /\ UNCHANGED <<smVars, inVars, flVars, rlVars, emVars, paVars, akVars, ck_article, ck_content, ck_pc>>

\* lines 71-84: one turn of the while loop
ChunkStep ==
    /\ ck_pc = "loop"
    /\ ck_start < Len(ck_content)
    /\ LET break_at == BreakAt(ck_content, ck_start)
           window == SubSeq(ck_content, ck_start + 1, break_at)
           text == WindowText(ck_content, ck_start)
       IN IF text # ""
          THEN /\ ck_chunks' = Append(ck_chunks, MkChunk(ck_article, text, ck_idx))
               /\ ck_spans' = Append(ck_spans, <<ck_start + Lead(window),
                                                 break_at - Trail(window)>>)
               /\ ck_idx' = ck_idx + 1
          ELSE UNCHANGED <<ck_chunks, ck_spans, ck_idx>>
    /\ ck_start' = NextStart(ck_content, ck_start)
    /\ UNCHANGED <<smVars, inVars, flVars, rlVars, emVars, paVars, akVars, ck_article, ck_content, ck_pc>>

\* lines 71 and 86: the loop ends and chunks is returned
ChunkReturn ==
    /\ ck_pc = "loop"
    /\ ~(ck_start < Len(ck_content))
    /\ ck_pc' = "done"
    /\ UNCHANGED <<smVars, inVars, flVars, rlVars, emVars, paVars, akVars, ck_article, ck_content, ck_start, ck_idx, ck_chunks,
                   ck_spans>>

NextChunk ==
    \/ ChunkEnter
    \/ ChunkStep
    \/ ChunkReturn

SpecChunk == InitChunk /\ [][NextChunk]_vars

\* the length of the run of whitespace around position m of s (m holds one)
WsRunAt(s, m) ==
    LET Sp(i) == IsSpace(SubSeq(s, i, i))
        left == IF \A d \in 1..(m - 1) : Sp(m - d) THEN m
                ELSE CHOOSE d \in 1..(m - 1) : ~Sp(m - d) /\ \A j \in 1..(d - 1) : Sp(m - j)
        right == IF \A d \in 1..(Len(s) - m) : Sp(m + d) THEN Len(s) - m + 1
                 ELSE CHOOSE d \in 1..(Len(s) - m) :
                          ~Sp(m + d) /\ \A j \in 1..(d - 1) : Sp(m + j)
    IN left + right - 1

\* s has n or more whitespace characters in a row: such a run holds a position
\* that is a multiple of n
HasWsRun(s, n) ==
    \E q \in 1..(Len(s) \div n) : IsSpace(SubSeq(s, q * n, q * n)) /\ WsRunAt(s, q * n) >= n

\* the first k chunk texts put end to end, each without the characters it
\* shares with the one before
RECURSIVE Glued(_)
Glued(k) ==
    IF k = 0 THEN ""
    ELSE IF k = 1 THEN ck_chunks[1].text
    ELSE Glued(k - 1) \o SubSeq(ck_chunks[k].text,
                                ck_spans[k - 1][2] - ck_spans[k][1] + 1,
                                Len(ck_chunks[k].text))

\* the chunks are slices of the content, in order, each overlapping the next,
\* from its first character to its last, and give it back when glued
InOrderCover ==
    /\ Len(ck_chunks) >= 1
    /\ Len(ck_spans) = Len(ck_chunks)
    /\ \A k \in 1..Len(ck_chunks) :
          /\ ck_chunks[k].text = SubSeq(ck_content, ck_spans[k][1] + 1, ck_spans[k][2])
          /\ ck_chunks[k].chunk_index = k - 1
    /\ ck_spans[1][1] = 0
    /\ ck_spans[Len(ck_spans)][2] = Len(ck_content)
    /\ \A k \in 1..(Len(ck_spans) - 1) :
          /\ ck_spans[k][1] < ck_spans[k + 1][1]
          /\ ck_spans[k + 1][1] < ck_spans[k][2]
          /\ ck_spans[k][2] < ck_spans[k + 1][2]
    /\ Glued(Len(ck_chunks)) = ck_content

ShortDone == ck_pc = "done" /\ Len(ck_content) < MIN_ARTICLE_CHARS

Window == SubSeq(ck_content, ck_start + 1, Min2(ck_start + CHUNK_CHARS, Len(ck_content)))

\* the 0-based place in w of the last ". " or blank line, or -1
LastBoundary(w) ==
    LET at == {q \in 0..(Len(w) - 2) : SubSeq(w, q + 1, q + 2) \in {". ", "\n\n"}}
    IN IF at = {} THEN -1 ELSE CHOOSE q \in at : \A r \in at : r <= q

\* where the next window starts when the cut of this one is put one character
\* after the last boundary, if that lies more than far characters into the
\* window, and at the window's edge otherwise
StartAfterCut(far) ==
    LET b == LastBoundary(Window)
        cut == IF b > far THEN ck_start + b + 1 ELSE ck_start + Len(Window)
    IN IF cut < Len(ck_content) THEN cut - OVERLAP_CHARS ELSE Len(ck_content)

\* the loop is about to take a turn
Turning == ck_pc = "loop" /\ ck_start < Len(ck_content)

\* C12 as stated: every turn of the loop cuts just after the last '. ' or blank
\* line of its window when that lies beyond the middle of the window, a final
\* window shorter than CHUNK_CHARS included, and at the window's edge
\* otherwise; the next window starts OVERLAP_CHARS before the cut unless the
\* cut is the end of the content.
C12_AsStated == [][Turning => ck_start' = StartAfterCut(Len(Window) \div 2)]_vars

\* C12: every turn of the loop cuts one character after the start of the last
\* '. ' or blank line of its window when that lies more than CHUNK_CHARS // 2
\* characters into the window, whatever the window's length (the middle of a
\* full window only), and at the window's edge otherwise; the next window
\* starts OVERLAP_CHARS before the cut unless the cut is the end of the content.
C12_CutAtLastBoundary == [][Turning => ck_start' = StartAfterCut(CHUNK_CHARS \div 2)]_vars

\* a content shorter than CHUNK_CHARS was cut after a full stop more than
\* CHUNK_CHARS // 2 characters in, and the next window starts OVERLAP_CHARS
\* before the cut
C12_Witness ==
    /\ ck_pc = "loop"
    /\ Len(ck_content) < CHUNK_CHARS
    /\ Len(ck_chunks) = 1
    /\ ck_spans[1][2] > CHUNK_CHARS \div 2
    /\ ck_spans[1][2] < Len(ck_content)
    /\ SubSeq(ck_content, ck_spans[1][2], ck_spans[1][2] + 1) = ". "
    /\ ck_start = ck_spans[1][2] - OVERLAP_CHARS

\* C13: at every point of a call the chunks made so far carry the indexes 0,
\* 1, 2, ... in the order of their places in the content (a chunk begins and
\* ends no earlier than the one before it), idx is the number of chunks made,
\* and a turn of the loop whose trimmed text is empty adds no chunk and leaves
\* idx as it is.
C13_IndexesInOrder ==
    /\ \A k \in 1..Len(ck_chunks) : ck_chunks[k].chunk_index = k - 1
    /\ ck_pc = "loop" => ck_idx = Len(ck_chunks)
    /\ Len(ck_spans) = Len(ck_chunks)
    /\ \A k \in 1..(Len(ck_spans) - 1) :
          /\ ck_spans[k][1] <= ck_spans[k + 1][1]
          /\ ck_spans[k][2] <= ck_spans[k + 1][2]
    /\ ck_pc = "done" => ck_chunks = chunk_article(ck_article)

\* the loop has just passed over a window that was all whitespace: one chunk
\* is made, and idx is still 1
C13_Witness ==
    /\ ck_pc = "loop"
    /\ ck_start >= CHUNK_CHARS - OVERLAP_CHARS
    /\ WindowText(ck_content, ck_start - (CHUNK_CHARS - OVERLAP_CHARS)) = ""
    /\ NextStart(ck_content, ck_start - (CHUNK_CHARS - OVERLAP_CHARS)) = ck_start
    /\ Len(ck_chunks) = 1
    /\ ck_chunks[1].chunk_index = 0
    /\ ck_idx = 1

(***************************************************************************)
(* Claims about the entry point and the traversal (SpecSitemap)            *)
(***************************************************************************)
\* the first k well-known URLs, in the order of SITEMAP_PATHS
FirstPaths(k) == [j \in 1..k |-> PathUrl(j)]

\* the first path with the property P, or one past the last path
FirstPathWith(P(_)) ==
    IF \E k \in 1..Len(SITEMAP_PATHS) : P(k)
    THEN CHOOSE k \in 1..Len(SITEMAP_PATHS) : P(k) /\ \A j \in 1..(k - 1) : ~P(j)
    ELSE Len(SITEMAP_PATHS) + 1

\* the probing is over: the paths before the first one with the property P
\* were requested in order and passed over, that one is the entry point, and
\* no path after it was requested
EntryIsFirst(P(_)) ==
    spc # "probe"
        => LET k == FirstPathWith(P)
           IN IF k <= Len(SITEMAP_PATHS)
              THEN sitemap_url = Some(PathUrl(k)) /\ requested = FirstPaths(k)
              ELSE /\ sitemap_url = None
                   /\ requested = FirstPaths(Len(SITEMAP_PATHS))
                   /\ result = Some(<<>>)

\* the GET of the k-th path answers parseable XML
Parseable(k) == site[PathUrl(k)].got /\ site[PathUrl(k)].parses

\* the GET of the k-th path answers a body that is not empty
NonEmpty(k) == Truthy(site[PathUrl(k)])

\* C14: fetch_all_urls requests the well-known paths in their order and takes
\* as entry point the first whose response is parseable XML; a path whose
\* fetch fails or whose response does not parse is passed over, and no path
\* after the chosen one is requested.
C14_EntryIsFirstParseable == EntryIsFirst(Parseable)

\* what the code does: the entry point is the first path whose fetch succeeds
\* with a body that is not empty, parseable or not
EntryIsFirstNonEmpty == EntryIsFirst(NonEmpty)

\* the sitemap URLs an index document lists
Children(u) == IF site[u].got /\ site[u].index THEN Range(site[u].locs) ELSE {}

\* the sitemap URLs reachable from the set S through fetched indexes
RECURSIVE ReachFrom(_, _)
ReachFrom(S, n) ==
    IF n = 0 THEN S ELSE ReachFrom(S \cup UNION {Children(u) : u \in S}, n - 1)

\* the leaves below the entry point: reachable, fetched, and no index
ReachedLeaves ==
    {u \in ReachFrom(Children(Val(sitemap_url)), Cardinality(AllSm)) :
        site[u].got /\ ~site[u].index}

\* how often x occurs in the list l
Count(l, x) == Cardinality({k \in 1..Len(l) : l[k] = x})

\* fetch_all_urls has returned from an entry point, with no budget
ReturnedNoBudget == spc = "returned" /\ sitemap_url # None /\ max_sitemap_files = None

\* C15: with no budget, when the entry point is an index, the list handed to
\* the filter holds the URLs of every leaf reachable from it through fetched
\* indexes, each leaf's URLs once, in whatever order the fetches completed;
\* when the entry point is a leaf, its URLs are handed to the filter.
C15_AllLeavesOnce ==
    ReturnedNoBudget
        => IF is_sitemap_index(site[Val(sitemap_url)])
           THEN /\ \A x \in Range(all_urls) \cup UNION {Range(site[u].locs) : u \in ReachedLeaves} :
                      Count(all_urls, x) = SumOver(ReachedLeaves,
                                                   [u \in ReachedLeaves |-> Count(site[u].locs, x)])
                /\ result = Some(filter_content_urls(all_urls))
           ELSE result = Some(filter_content_urls(parse_sitemap_urls(site[Val(sitemap_url)])))

\* the root lists a.xml and b.xml, a.xml is an index that lists b.xml again:
\* b.xml was fetched twice and its two URLs collected once
C15_Witness ==
    /\ ReturnedNoBudget
    /\ site[RootUrl] = IndexDoc(<<"https://x.org/a.xml", "https://x.org/b.xml">>)
    /\ site["https://x.org/a.xml"] = IndexDoc(<<"https://x.org/b.xml">>)
    /\ site["https://x.org/b.xml"] = LeafDoc("https://x.org/b.xml")
    /\ fetches["https://x.org/b.xml"] = 2
    /\ Len(all_urls) = 2

\* the consumed documents that are leaves, and those that gave nothing
ProcessedLeaves == {u \in processed : site[u].got /\ site[u].parses /\ ~site[u].index}
ProcessedFailures == {u \in processed : ~site[u].got \/ ~site[u].parses}

\* all_urls holds the URLs of the consumed leaves, each leaf's once, and
\* nothing else
CollectedAreProcessedLeaves ==
    \A x \in Range(all_urls) \cup UNION {Range(site[u].locs) : u \in ProcessedLeaves} :
        Count(all_urls, x) = SumOver(ProcessedLeaves,
                                     [u \in ProcessedLeaves |-> Count(site[u].locs, x)])

\* fetch_all_urls has returned, or is at a statement of its own with a step
\* to take: a path to try, the root to parse, a batch to cut, a future to
\* fetch or to consume
RunningOrReturned ==
    \/ spc \in {"probe", "root", "loop", "returned"}
    \/ spc = "batch" /\ \E i \in 1..Len(futures) : futures[i].st \in {"submitted", "done"}

\* C16: with or without a budget, whatever documents fail to be fetched or to
\* parse, all_urls holds at every moment exactly the URLs of the leaves
\* consumed so far (a failed document adds none and takes none away), and
\* nothing ends fetch_all_urls but its return.
C16_FailuresSkipped ==
    /\ CollectedAreProcessedLeaves
    /\ RunningOrReturned

\* a traversal that met a sitemap that could not be fetched and one that did
\* not parse, and returned the URLs of the leaf it met after them
C16_Witness ==
    /\ spc = "returned"
    /\ sitemap_url = Some(RootUrl)
    /\ ProcessedFailures # {}
    /\ \E u \in ProcessedFailures : site[u] = NoResponse
    /\ ProcessedLeaves # {}
    /\ all_urls # <<>>
    /\ result # Some(<<>>)


(***************************************************************************)
(* _filter_content_urls, one call on a list of candidates (SpecFilter)     *)
(***************************************************************************)
MaxCandidates == 3

\* candidates: a content page, the same with a trailing slash, with capitals,
\* with a query; an include prefix without its slash; a content page under a
\* pagination path; a page that is no content; an excluded word in capitals
FilterUrls ==
    {"https://x.org/article/a1", "https://x.org/article/a1/",
     "https://x.org/Article/A1", "https://x.org/article/a1?ref=x",
     "https://x.org/article", "https://x.org/article/a1/page/2",
     "https://x.org/store/s1", "https://x.org/essays/Store/e1"}

InitFilter ==
    /\ fl_urls \in SeqsUpTo(FilterUrls, MaxCandidates)
    /\ fl_pc = "call"
    /\ fl_result = <<>>
    /\ IdleSitemap
    /\ IdleIngest
    /\ IdleChunk
    /\ IdleRateLimit
    /\ IdleEmbed
    /\ IdleParse
    /\ IdleAsk

\* lines 104-128: the call and its return
FilterCall ==
    /\ fl_pc = "call"
    /\ fl_result' = filter_content_urls(fl_urls)
    /\ fl_pc' = "returned"
    /\ UNCHANGED <<smVars, inVars, ckVars, rlVars, emVars, paVars, akVars, fl_urls>>

NextFilter == FilterCall

SpecFilter == InitFilter /\ [][NextFilter]_vars

(***************************************************************************)
(* C17                                                                     *)
(***************************************************************************)
StartsWithInclude(path) ==
    \E k \in 1..Len(INCLUDE_PREFIXES) : StartsWith(path, INCLUDE_PREFIXES[k])
IsBareInclude(path) ==
    \E k \in 1..Len(INCLUDE_PREFIXES) :
        INCLUDE_PREFIXES[k] = path \o "/"
HasExclude(path) ==
    \E k \in 1..Len(EXCLUDE_PREFIXES) :
        \E at \in 1..Len(path) : StartsWith(SubSeq(path, at, Len(path)), EXCLUDE_PREFIXES[k])

\* the path as written in the URL, and the test of the claim's words on it
PassesAsWritten(url) ==
    StartsWithInclude(UrlPath(url)) /\ ~HasExclude(UrlPath(url))

\* the same test on the lower-cased path, an include prefix without its final
\* slash counting as a match
PassesLowered(url) ==
    LET path == Lower(UrlPath(url))
    IN (StartsWithInclude(path) \/ IsBareInclude(path)) /\ ~HasExclude(path)

\* the URL without its trailing slashes
Slashless(url) ==
    CHOOSE t \in {SubSeq(url, 1, n) : n \in 0..Len(url)} :
        /\ ~EndsWith(t, "/")
        /\ url = t \o Rep("/", Len(url) - Len(t))

\* the positions of the candidates that pass and repeat no earlier candidate
\* that passed
KeptPositions(Passes(_)) ==
    {k \in 1..Len(fl_urls) :
        /\ Passes(fl_urls[k])
        /\ \A j \in 1..(k - 1) :
              Passes(fl_urls[j]) => Slashless(fl_urls[j]) # Slashless(fl_urls[k])}

\* the candidates at the positions of S, in the order of the list
RECURSIVE PickFrom(_, _)
PickFrom(k, S) ==
    IF k > Len(fl_urls) THEN <<>>
    ELSE IF k \in S THEN <<fl_urls[k]>> \o PickFrom(k + 1, S)
    ELSE PickFrom(k + 1, S)

\* C17 as stated: the list returned is made of the candidates whose path, as
\* written, starts with an include prefix and contains no exclude prefix,
\* repeats of an earlier retained URL left out.
C17_AsStated ==
    fl_pc = "returned" => fl_result = PickFrom(1, KeptPositions(PassesAsWritten))

\* C17: the list returned is made of the candidates whose lower-cased path
\* starts with an include prefix, or is an include prefix without its final
\* slash, and contains no exclude prefix as a substring, repeats of an earlier
\* retained URL left out.
C17_RetainedIffLoweredPathPasses ==
    fl_pc = "returned" => fl_result = PickFrom(1, KeptPositions(PassesLowered))

\* a call that returned, whose candidates held a page retained for its path in
\* capitals or for being a bare include prefix, a page under an include prefix
\* dropped for an exclude prefix further in its path
C17_Witness ==
    /\ fl_pc = "returned"
    /\ \E k \in 1..Len(fl_urls) :
          /\ ~PassesAsWritten(fl_urls[k])
          /\ \E i \in 1..Len(fl_result) : fl_result[i] = fl_urls[k]
    /\ \E k \in 1..Len(fl_urls) :
          /\ StartsWithInclude(UrlPath(fl_urls[k]))
          /\ HasExclude(UrlPath(fl_urls[k]))
          /\ \A i \in 1..Len(fl_result) : fl_result[i] # fl_urls[k]
    /\ Len(fl_result) = 1

(***************************************************************************)
(* C18                                                                     *)
(***************************************************************************)
\* where url is first seen among the candidates
FirstSeen(url) ==
    CHOOSE k \in 1..Len(fl_urls) :
        fl_urls[k] = url /\ \A j \in 1..(k - 1) : fl_urls[j] # url

InFirstSeenOrder ==
    /\ \A i \in 1..Len(fl_result) : \E k \in 1..Len(fl_urls) : fl_urls[k] = fl_result[i]
    /\ \A i, j \in 1..Len(fl_result) :
          i < j => FirstSeen(fl_result[i]) < FirstSeen(fl_result[j])

\* C18 as stated: no two URLs of the list returned have the same path once
\* its trailing slash is removed, and they stand in first-seen order.
C18_AsStated ==
    fl_pc = "returned" =>
        /\ \A i, j \in 1..Len(fl_result) :
              i # j => Slashless(UrlPath(fl_result[i])) # Slashless(UrlPath(fl_result[j]))
        /\ InFirstSeenOrder

\* C18: no two URLs of the list returned are the same string once trailing
\* slashes are removed from the whole URL, and they stand in the order in
\* which they were first seen among the candidates.
C18_NoTwoSameUrlInOrder ==
    fl_pc = "returned" =>
        /\ \A i, j \in 1..Len(fl_result) :
              i # j => Slashless(fl_result[i]) # Slashless(fl_result[j])
        /\ InFirstSeenOrder

\* a call that returned two URLs out of three candidates, the third being
\* the first again with a trailing slash more or less
C18_Witness ==
    /\ fl_pc = "returned"
    /\ Len(fl_urls) = 3
    /\ Len(fl_result) = 2
    /\ \E j, k \in 1..Len(fl_urls) :
          /\ j < k
          /\ fl_urls[j] # fl_urls[k]
          /\ Slashless(fl_urls[j]) = Slashless(fl_urls[k])
          /\ fl_result[1] = fl_urls[j]


(***************************************************************************)
(* C19                                                                     *)
(***************************************************************************)
\* the articles of the first n URLs of the list whose fetch and parse
\* succeeded, in the order of the list
RECURSIVE SucceededAmong(_)
SucceededAmong(n) ==
    IF n = 0 THEN <<>>
    ELSE IF web[urls[n]] = "ok"
         THEN Append(SucceededAmong(n - 1), PageArticle(urls[n]))
         ELSE SucceededAmong(n - 1)

\* C19: with one worker the articles list is, all along the run, made of the
\* articles of the URLs crawled so far whose fetch and parse succeeded, in the
\* order of the URL list; once the crawl is over, of all the URLs of the list.
C19_SequentialKeepsInputOrder ==
    workers = 1
        => /\ articles = SucceededAmong(seq_i)
           /\ pc = "parsed" => seq_i = Len(urls)

\* a sequential crawl of two URLs that ended with both articles
C19_Witness ==
    /\ workers = 1
    /\ pc = "parsed"
    /\ urls = <<U2, U1>>
    /\ Len(articles) = 2
    /\ articles[1].url = U2
    /\ articles[2].url = U1


(***************************************************************************)
(* The sequential loop of main (run_ingest.py 141-148) calling             *)
(* fetch_and_parse_article with rate_limit=True (parser.py 178-206), with  *)
(* the clock (SpecRateLimit).  The clock counts half seconds.  It moves    *)
(* while the thread sleeps and while a GET is awaited; the time the loop   *)
(* takes between a return and the next call is counted with the GET before *)
(* it.  The GET is sent right after _last_fetch_time is set, and that      *)
(* moment is taken as the start of the fetch.                              *)
(***************************************************************************)
MaxFetches == 3
MaxClockStart == 4
MaxLatency == 4
MaxOversleep == 1

\* REQUEST_DELAY_SEC = 1.5, as the fraction 3/2
REQUEST_DELAY_SEC == <<3, 2>>

\* a number of seconds in the clock's half seconds
HalfSeconds(q) == (2 * q[1]) \div q[2]

InitRateLimit ==
    /\ clock \in 0..MaxClockStart
    /\ last_fetch_time = 0
    /\ rl_pc = "loop"
    /\ rl_n \in 1..MaxFetches
    /\ rl_i = 0
    /\ starts = <<>>
    /\ in_flight = 0
    /\ IdleSitemap
    /\ IdleIngest
    /\ IdleChunk
    /\ IdleFilter
    /\ IdleEmbed
    /\ IdleParse
    /\ IdleAsk

\* run_ingest.py 144-146: the next URL of the list, or the end of the loop
LoopHead ==
    /\ rl_pc = "loop"
    /\ rl_pc' = IF rl_i < rl_n THEN "limit" ELSE "done"
    /\ UNCHANGED <<smVars, inVars, ckVars, flVars, emVars, paVars, akVars, clock, last_fetch_time, rl_n, rl_i,
                   starts, in_flight>>

\* a rate limit that notes the time before it sleeps (C20 rests on line 200
\* coming after the sleep)
RateLimit_StampFirst ==
    /\ rl_pc = "limit"
    /\ LET elapsed == clock - last_fetch_time
       IN /\ IF elapsed < HalfSeconds(REQUEST_DELAY_SEC)
             THEN \E over \in 0..MaxOversleep :
                     clock' = clock + (HalfSeconds(REQUEST_DELAY_SEC) - elapsed) + over
             ELSE clock' = clock
          /\ last_fetch_time' = clock
    /\ starts' = Append(starts, clock')
    /\ in_flight' = in_flight + 1
    /\ rl_pc' = "get"
    /\ UNCHANGED <<smVars, inVars, ckVars, flVars, emVars, paVars, akVars, rl_n, rl_i>>

\* parser.py 196-203: elapsed, the sleep (time.sleep returns after the time
\* asked for, or later), _last_fetch_time, and the GET being sent
RateLimit ==
    /\ rl_pc = "limit"
    /\ LET elapsed == clock - last_fetch_time
       IN IF elapsed < HalfSeconds(REQUEST_DELAY_SEC)
          THEN \E over \in 0..MaxOversleep :
                  clock' = clock + (HalfSeconds(REQUEST_DELAY_SEC) - elapsed) + over
          ELSE clock' = clock
    /\ last_fetch_time' = clock'
    /\ starts' = Append(starts, clock')
    /\ in_flight' = in_flight + 1
    /\ rl_pc' = "get"
    /\ UNCHANGED <<smVars, inVars, ckVars, flVars, emVars, paVars, akVars, rl_n, rl_i>>

\* parser.py 203-206 and run_ingest.py 147-148: the GET is answered or fails
\* after some time, fetch_and_parse_article returns, the loop goes on
GetReturns ==
    /\ rl_pc = "get"
    /\ \E took \in 0..MaxLatency : clock' = clock + took
    /\ in_flight' = in_flight - 1
    /\ rl_i' = rl_i + 1
    /\ rl_pc' = "loop"
    /\ UNCHANGED <<smVars, inVars, ckVars, flVars, emVars, paVars, akVars, last_fetch_time, rl_n, starts>>

NextRateLimit ==
    \/ LoopHead
    \/ RateLimit
    \/ GetReturns

SpecRateLimit == InitRateLimit /\ [][NextRateLimit]_vars

(***************************************************************************)
(* C20                                                                     *)
(***************************************************************************)
\* C20: in the sequential loop no GET is sent while another is unanswered,
\* and each fetch starts at least REQUEST_DELAY_SEC (3 half seconds) after
\* the start of the one before it.
C20_OneAtATimeAndSpaced ==
    /\ in_flight <= 1
    /\ \A k \in 1..(Len(starts) - 1) : starts[k + 1] - starts[k] >= 3

\* a loop of three fetches: the second waited out the delay after a quick
\* first one, the third came after a slow second one and did not wait
C20_Witness ==
    /\ rl_pc = "done"
    /\ Len(starts) = 3
    /\ starts[2] - starts[1] = 3
    /\ starts[3] - starts[2] > 3
    /\ clock > starts[3]


(***************************************************************************)
(* C21                                                                     *)
(***************************************************************************)
\* what makes the handler skip the save
NothingToSave == articles = <<>> \/ ~api_key \/ dry_run

\* C21: once the handler runs with no article accumulated, no API key, or a
\* dry run, no call of embed_batch has been or is made, the collection is as
\* it was when the run began, and the handler goes no further than its tests
\* (lines 40-55), from which the process exits.
C21_SaveSkipped ==
    (inHandler /\ NothingToSave)
        => /\ embed_calls = 0
           /\ collection = coll0
           /\ pc \in {"h_entry", "h_install", "h_guards", "exited"}
           /\ pc = "exited"
                 => exit_via \in {"skip_no_articles", "skip_no_embed", "second_signal"}

\* a dry run with an article parsed, interrupted: the handler left without
\* saving
C21_Witness ==
    /\ pc = "exited"
    /\ exit_via = "skip_no_embed"
    /\ dry_run
    /\ articles # <<>>
    /\ embed_calls = 0
    /\ collection = coll0


(***************************************************************************)
(* C22                                                                     *)
(***************************************************************************)
\* the chunks add_chunks has written so far in this run
WrittenChunks ==
    IF pc = "written" \/ (pc = "exited" /\ exit_via \in {"done", "saved"}) THEN all_chunks
    ELSE IF pc = "add" THEN SubSeq(all_chunks, 1, Min2(add_start, Len(all_chunks)))
    ELSE <<>>

\* C22: the ID of a chunk is the first 12 hex digits of the SHA-256 of its
\* source_url, "_", and its chunk_index in decimal, and nothing else: a record
\* written in this run, by main or by the handler, whatever the collection
\* held, is under that ID; chunk 0 of an article gets the ID an earlier run
\* gave it; and the IDs of two indexes of one URL differ.
C22_ChunkIdIsFunctionOfUrlAndIndex ==
    /\ \A k \in 1..Len(WrittenChunks) :
          \E r \in collection.recs :
              /\ r.document = WrittenChunks[k].text
              /\ r.metadata.source_url = WrittenChunks[k].source_url
              /\ r.id = Sha12(WrittenChunks[k].source_url) \o "_"
                            \o Str(WrittenChunks[k].chunk_index)
    /\ \A k \in 1..Len(all_chunks) :
          (all_chunks[k].source_url = U1 /\ all_chunks[k].chunk_index = 0)
              => chunk_id(all_chunks[k].source_url, all_chunks[k].chunk_index)
                     = "573e611d4937_0"
    /\ \A j, k \in 1..Len(all_chunks) :
          (j # k /\ all_chunks[j].source_url = all_chunks[k].source_url)
              => chunk_id(all_chunks[j].source_url, all_chunks[j].chunk_index)
                     # chunk_id(all_chunks[k].source_url, all_chunks[k].chunk_index)
    /\ \A u \in Range(urls) : \A i \in 0..4 : \A j \in (i + 1)..5 :
          chunk_id(u, i) # chunk_id(u, j)

\* a run over a collection an earlier run had filled wrote the two chunks of
\* one article and the chunk of another, the latter under the ID it had before
C22_Witness ==
    /\ pc = "written"
    /\ coll0.exists
    /\ \E r \in coll0.recs : r.id = "573e611d4937_0"
    /\ \E r \in collection.recs : r.id = "573e611d4937_0" /\ r \notin coll0.recs
    /\ \E j, k \in 1..Len(all_chunks) :
          /\ all_chunks[j].source_url = U2 /\ all_chunks[j].chunk_index = 0
          /\ all_chunks[k].source_url = U2 /\ all_chunks[k].chunk_index = 1


(***************************************************************************)
(* One call of Embedder.embed, embed_batch or embed_async under tenacity's *)
(* @retry (SpecEmbed).  An attempt runs the method's body once; after a    *)
(* failed attempt tenacity asks retry=, then stop=, then sleeps wait=      *)
(* seconds and runs the body again; reraise=True makes the call raise the  *)
(* last attempt's exception.                                               *)
(***************************************************************************)
RATE_LIMIT_WAIT_SEC == 65

EmbedMethods == {"embed", "embed_batch", "embed_async"}

\* the classes an attempt can raise: the built-in ConnectionError and
\* TimeoutError, openai.RateLimitError; openai.APIConnectionError and
\* openai.AuthenticationError, which are none of the three nor subclasses of them
ErrorClasses ==
    {"ConnectionError", "TimeoutError", "RateLimitError", "APIConnectionError",
     "AuthenticationError"}

\* stop=stop_after_attempt(n) (lines 32, 48, 67)
stop_after_attempt(fn) == IF fn = "embed_batch" THEN 20 ELSE 15

\* a retry= that retries after any exception (C23 rests on the tuple of lines
\* 34, 50, 69)
ShouldRetry_Any(exc) == TRUE

\* retry=retry_if_exception_type((ConnectionError, TimeoutError, OpenAIRateLimitError))
ShouldRetry(exc) == exc \in {"ConnectionError", "TimeoutError", "RateLimitError"}

RECURSIVE Pow2(_)
Pow2(n) == IF n = 0 THEN 1 ELSE 2 * Pow2(n - 1)

\* wait_exponential(multiplier=1, min=2, max=30) at attempt n
wait_exponential(n) == Max2(2, Min2(Pow2(n - 1), 30))

\* _wait_for_embed_retry (lines 15-21)
wait_for_embed_retry(exc, n) ==
    IF exc = "RateLimitError" THEN RATE_LIMIT_WAIT_SEC ELSE wait_exponential(n)

InitEmbed ==
    /\ em_fn \in EmbedMethods
    /\ em_empty \in (IF em_fn = "embed_batch" THEN BOOLEAN ELSE {FALSE})
    /\ em_pc = "attempt"
    /\ em_attempt = 1
    /\ em_outcome = ""
    /\ em_wait = 0
    /\ em_retried = {}
    /\ em_api_calls = 0
    /\ IdleSitemap
    /\ IdleIngest
    /\ IdleChunk
    /\ IdleFilter
    /\ IdleRateLimit
    /\ IdleParse
    /\ IdleAsk

\* the body of the method runs once and returns (lines 39-45, 55-64, 74-80)
AttemptReturns ==
    /\ em_pc = "attempt"
    /\ em_outcome' = "ok"
    /\ em_api_calls' = IF em_empty THEN em_api_calls ELSE em_api_calls + 1
    /\ em_pc' = "returned"
    /\ UNCHANGED <<smVars, inVars, ckVars, flVars, rlVars, paVars, akVars, em_fn, em_empty, em_attempt,
                   em_wait, em_retried>>

\* embeddings.create raises exc; the decorator raises it to the caller or
\* goes to sleep before the next attempt
AttemptRaises(exc) ==
    /\ em_pc = "attempt"
    /\ ~em_empty
    /\ em_outcome' = exc
    /\ em_api_calls' = em_api_calls + 1
    /\ IF ~ShouldRetry(exc) \/ em_attempt >= stop_after_attempt(em_fn)
       THEN em_pc' = "raised" /\ UNCHANGED em_wait
       ELSE em_pc' = "sleep" /\ em_wait' = wait_for_embed_retry(exc, em_attempt)
    /\ UNCHANGED <<smVars, inVars, ckVars, flVars, rlVars, paVars, akVars, em_fn, em_empty, em_attempt,
                   em_retried>>

\* the sleep is over: the next attempt begins
NextAttempt ==
    /\ em_pc = "sleep"
    /\ em_attempt' = em_attempt + 1
    /\ em_retried' = em_retried \cup {em_outcome}
    /\ em_pc' = "attempt"
    /\ UNCHANGED <<smVars, inVars, ckVars, flVars, rlVars, paVars, akVars, em_fn, em_empty, em_outcome,
                   em_wait, em_api_calls>>

NextEmbed ==
    \/ AttemptReturns
    \/ \E exc \in ErrorClasses : AttemptRaises(exc)
    \/ NextAttempt

SpecEmbed == InitEmbed /\ [][NextEmbed]_vars

(***************************************************************************)
(* C23                                                                     *)
(***************************************************************************)
Transient == {"ConnectionError", "TimeoutError", "RateLimitError"}
AttemptLimit == IF em_fn = "embed_batch" THEN 20 ELSE 15

\* C23: a call makes at most 20 attempts (embed_batch) or 15 (embed,
\* embed_async); a new attempt is made only after a ConnectionError, a
\* TimeoutError or a RateLimitError; the call raises the exception of its last
\* attempt, at once when it is of another class, and after the last allowed
\* attempt when it is of one of the three.
C23_BoundedRetryOfTransient ==
    /\ em_attempt <= AttemptLimit
    /\ em_api_calls <= em_attempt
    /\ em_retried \subseteq Transient
    /\ em_pc = "sleep" => (em_outcome \in Transient /\ em_attempt < AttemptLimit)
    /\ em_pc = "raised"
          => /\ em_outcome \in ErrorClasses
             /\ em_outcome \in Transient => em_attempt = AttemptLimit
             /\ em_outcome \notin Transient => em_api_calls = em_attempt

\* embed_batch gave up on a rate limit at its twentieth attempt, having
\* retried after each of the three classes
C23_Witness ==
    /\ em_fn = "embed_batch"
    /\ em_pc = "raised"
    /\ em_attempt = 20
    /\ em_outcome = "RateLimitError"
    /\ em_retried = Transient
    /\ em_api_calls = 20


(***************************************************************************)
(* C24                                                                     *)
(***************************************************************************)
\* C24: in a dry run, wherever the run stands and however it ends, no call of
\* embed_batch has been made, the run is at none of the statements that embed
\* or that open, delete or write the collection, and the collection is as it
\* was when the run began.
C24_DryRunTouchesNothing ==
    dry_run
        => /\ embed_calls = 0
           /\ embeddings = <<>>
           /\ collection = coll0
           /\ pc \notin {"h_chunk", "embed", "embed_wait", "delete", "create", "add", "written"}
           /\ pc = "exited"
                 => exit_via \in {"no_articles", "dry_run", "skip_no_articles",
                                  "skip_no_embed", "second_signal", "keyboard_interrupt"}

\* a dry run over an existing collection that chunked its articles and
\* returned
C24_Witness ==
    /\ dry_run
    /\ pc = "exited"
    /\ exit_via = "dry_run"
    /\ sigCount = 0
    /\ all_chunks # <<>>
    /\ coll0.exists
    /\ collection = coll0


(***************************************************************************)
(* One call of parse_article (SpecParse).  A page is described by what     *)
(* each lookup of parse_article finds in it: for each selector of line 149 *)
(* the text _strip_html gives for the element it selects (<<>> when it     *)
(* selects none), and for each metadata source the string it yields ("",   *)
(* when it yields none).  The text of a container is a run of one letter   *)
(* of its own, so that a body tells which container it was taken from.     *)
(***************************************************************************)
BodySelectors ==
    <<"article", ".post-content", ".entry-content", ".article-body", "[class*=content]", "main">>

SelectorLetter(k) == SubSeq("apebcm", k, k)

\* the texts a container can have: none, shorter than 100 characters (the
\* <article> only), between 100 and 200, 200, more than 200
ContainerTexts(k) ==
    {None} \cup {Some(Rep(SelectorLetter(k), n)) : n \in {0, 150, 200, 250}}
           \cup (IF k = 1 THEN {Some(Rep(SelectorLetter(k), 99))} ELSE {})

\* pages: an element of class post-content or entry-content is also selected
\* by [class*=content]
Containers ==
    {c \in {<<c1, c2, c3, c4, c5, c6>> :
                c1 \in ContainerTexts(1), c2 \in ContainerTexts(2), c3 \in ContainerTexts(3),
                c4 \in ContainerTexts(4), c5 \in ContainerTexts(5), c6 \in ContainerTexts(6)} :
        (c[2] # None \/ c[3] # None) => c[5] # None}

\* what the metadata lookups yield: title <<og:title, headline, h1, title>>,
\* author <<article:author, JSON-LD>> and the CSS lookup (<<>> no element),
\* section <<article:section, URL>> and the breadcrumb, date
\* <<article:published_time, datePublished>>
MetaChoices ==
    {[title |-> <<"", "", "", "">>, author |-> <<"", "">>, byline |-> None,
      section |-> <<"", "">>, breadcrumb |-> "", date |-> <<"", "">>],
     [title |-> <<"My Title", "Headline", "H1", "Page">>, author |-> <<"Ann", "Bob">>,
      byline |-> Some("Cy"), section |-> <<"Bible", "Foo">>, breadcrumb |-> "Topics",
      date |-> <<"2024-01-02T10:00:00Z", "2023-05-06">>],
     [title |-> <<"", "", "", "Page">>, author |-> <<"", "">>, byline |-> Some("Cy"),
      section |-> <<"", "Foo">>, breadcrumb |-> "", date |-> <<"", "2023-05-06">>],
     [title |-> <<"", "", "H1", "Page">>, author |-> <<"", "">>, byline |-> Some(""),
      section |-> <<"", "">>, breadcrumb |-> "Topics", date |-> <<"", "">>]}

\* a or b or ... or "" over a list of strings
RECURSIVE FirstTruthy(_)
FirstTruthy(l) ==
    IF l = <<>> THEN "" ELSE IF Head(l) # "" THEN Head(l) ELSE FirstTruthy(Tail(l))

InitParse ==
    /\ pa_page \in {[containers |-> c, meta |-> m] : c \in Containers, m \in MetaChoices}
    /\ pa_pc = "meta"
    /\ pa_sel = 0
    /\ pa_broke = FALSE
    /\ pa_title = ""
    /\ pa_author = ""
    /\ pa_section = ""
    /\ pa_date = ""
    /\ pa_body = ""
    /\ pa_result = <<>>
    /\ IdleSitemap
    /\ IdleIngest
    /\ IdleChunk
    /\ IdleFilter
    /\ IdleRateLimit
    /\ IdleEmbed
    /\ IdleAsk

\* lines 100-148: title, author, section, date
ParseMeta ==
    /\ pa_pc = "meta"
    /\ pa_title' = FirstTruthy(pa_page.meta.title)
    /\ pa_author' = LET a == FirstTruthy(pa_page.meta.author)
                    IN IF a = "" /\ pa_page.meta.byline # None
                       THEN Val(pa_page.meta.byline) ELSE a
    /\ pa_section' = LET sec == FirstTruthy(pa_page.meta.section)
                     IN IF sec = "" THEN pa_page.meta.breadcrumb ELSE sec
    /\ pa_date' = LET d == FirstTruthy(pa_page.meta.date)
                  IN IF Len(d) > 10 THEN SubSeq(d, 1, 10) ELSE d
    /\ pa_body' = ""
    /\ pa_pc' = "body"
    /\ UNCHANGED <<smVars, inVars, ckVars, flVars, rlVars, emVars, akVars, pa_page, pa_sel, pa_broke,
                   pa_result>>

\* lines 149-157: one turn of the loop over the selectors, or its end
BodyStep ==
    /\ pa_pc = "body"
    /\ IF pa_sel < Len(BodySelectors) /\ ~pa_broke
       THEN LET el == pa_page.containers[pa_sel + 1]
            IN /\ pa_sel' = pa_sel + 1
               /\ pa_body' = IF el # None THEN Val(el) ELSE pa_body
               /\ pa_broke' = (el # None /\ Len(Val(el)) > 200)
               /\ UNCHANGED pa_pc
       ELSE /\ pa_pc' = "fallback"
            /\ UNCHANGED <<pa_sel, pa_body, pa_broke>>
    /\ UNCHANGED <<smVars, inVars, ckVars, flVars, rlVars, emVars, akVars, pa_page, pa_title,
                   pa_author, pa_section, pa_date, pa_result>>

\* lines 159-160
BodyFallback ==
    /\ pa_pc = "fallback"
    /\ pa_body' = IF pa_body = "" /\ pa_page.containers[1] # None
                  THEN Val(pa_page.containers[1]) ELSE pa_body
    /\ pa_pc' = "check"
    /\ UNCHANGED <<smVars, inVars, ckVars, flVars, rlVars, emVars, akVars, pa_page, pa_sel, pa_broke,
                   pa_title, pa_author, pa_section, pa_date, pa_result>>

\* a parse_article that also turns away a page without a title (C25 rests on
\* the test of line 162 looking at the body alone)
ParseReturn_NeedsTitle ==
    /\ pa_pc = "check"
    /\ pa_result' =
          IF pa_body = "" \/ Len(pa_body) < 100 \/ pa_title = "" THEN None
          ELSE Some([url |-> U1,
                     title |-> IF pa_title # "" THEN pa_title ELSE "Untitled",
                     author |-> IF pa_author # "" THEN pa_author ELSE "Unknown",
                     section |-> IF pa_section # "" THEN pa_section ELSE "General",
                     date |-> pa_date,
                     content |-> pa_body])
    /\ pa_pc' = "returned"
    /\ UNCHANGED <<smVars, inVars, ckVars, flVars, rlVars, emVars, akVars, pa_page, pa_sel, pa_broke,
                   pa_title, pa_author, pa_section, pa_date, pa_body>>

\* lines 162-172
ParseReturn ==
    /\ pa_pc = "check"
    /\ pa_result' =
          IF pa_body = "" \/ Len(pa_body) < 100 THEN None
          ELSE Some([url |-> U1,
                     title |-> IF pa_title # "" THEN pa_title ELSE "Untitled",
                     author |-> IF pa_author # "" THEN pa_author ELSE "Unknown",
                     section |-> IF pa_section # "" THEN pa_section ELSE "General",
                     date |-> pa_date,
                     content |-> pa_body])
    /\ pa_pc' = "returned"
    /\ UNCHANGED <<smVars, inVars, ckVars, flVars, rlVars, emVars, akVars, pa_page, pa_sel, pa_broke,
                   pa_title, pa_author, pa_section, pa_date, pa_body>>

NextParse ==
    \/ ParseMeta
    \/ BodyStep
    \/ BodyFallback
    \/ ParseReturn

SpecParse == InitParse /\ [][NextParse]_vars


(***************************************************************************)
(* C25                                                                     *)
(***************************************************************************)
AllEmpty(l) == \A k \in 1..Len(l) : l[k] = ""

\* C25: parse_article answers None exactly when the body it extracted is
\* empty or shorter than 100 characters; otherwise it answers an Article with
\* that body whose title, author and section are not empty, 'Untitled',
\* 'Unknown' and 'General' standing in where the page yields none.
C25_RejectsOnBodyAlone ==
    pa_pc = "returned"
        => /\ (pa_result = None) <=> (Len(pa_body) < 100)
           /\ pa_result # None
                 => /\ Val(pa_result).content = pa_body
                    /\ Val(pa_result).title # ""
                    /\ Val(pa_result).author # ""
                    /\ Val(pa_result).section # ""
                    /\ AllEmpty(pa_page.meta.title) => Val(pa_result).title = "Untitled"
                    /\ (AllEmpty(pa_page.meta.author) /\ pa_page.meta.byline \in {None, Some("")})
                          => Val(pa_result).author = "Unknown"
                    /\ (AllEmpty(pa_page.meta.section) /\ pa_page.meta.breadcrumb = "")
                          => Val(pa_result).section = "General"

\* a page with no metadata at all and a body of 150 characters was parsed
\* into an Article
C25_Witness ==
    /\ pa_pc = "returned"
    /\ AllEmpty(pa_page.meta.title)
    /\ AllEmpty(pa_page.meta.author)
    /\ Len(pa_body) = 150
    /\ pa_result # None
    /\ Val(pa_result).title = "Untitled"
    /\ Val(pa_result).author = "Unknown"
    /\ Val(pa_result).section = "General"

(***************************************************************************)
(* C26                                                                     *)
(***************************************************************************)
\* the selectors whose container has more than 200 characters
LongContainers ==
    {k \in 1..Len(BodySelectors) :
        pa_page.containers[k] # None /\ Len(Val(pa_page.containers[k])) > 200}

\* C26 as stated: the body is the text of the first container, in the order
\* of the selectors, with more than 200 characters; when there is none it is
\* the text of the <article> if the page has one, and empty otherwise.
C26_BodyIsFirstLongOrArticle ==
    pa_pc \in {"check", "returned"}
        => pa_body =
              IF LongContainers # {}
              THEN Val(pa_page.containers[CHOOSE k \in LongContainers :
                                              \A j \in LongContainers : k <= j])
              ELSE IF pa_page.containers[1] # None THEN Val(pa_page.containers[1])
              ELSE ""

(***************************************************************************)
(* api.py, rag/retriever.py, rag/answer.py: POST /ask and the library's    *)
(* Retriever.retrieve followed by ask                                      *)
(***************************************************************************)
MaxDocs == 3

\* answer.py lines 30 and 58
NO_CONTEXT_MESSAGE ==
    "I don't have any relevant articles to answer that. Try rephrasing or run the ingest to add more content."

\* the documents a collection is filled from: text, then the metadata
\* _query_with_embedding reads
DocPool ==
    {[text |-> Rep("a", 50), title |-> "T1", author |-> "A1", section |-> "article",
      date |-> "2024-01-01", source_url |-> "https://x.org/article/a1"],
     [text |-> Rep("b", 300), title |-> "T2", author |-> "A2", section |-> "article",
      date |-> "", source_url |-> "https://x.org/article/a2"],
     [text |-> Rep("c", 301), title |-> "", author |-> "", section |-> "podcast",
      date |-> "", source_url |-> "https://x.org/podcasts/p1"],
     [text |-> Rep("d", 400), title |-> "T4", author |-> "A4", section |-> "essay",
      date |-> "2023-05-05", source_url |-> "https://x.org/essay/e1"]}

\* the collections of up to MaxDocs distinct documents, nearest to the query first
RECURSIVE DocSeqs(_)
DocSeqs(k) ==
    IF k = 0 THEN {<<>>}
    ELSE LET shorter == DocSeqs(k - 1)
         IN shorter \cup {Append(q, d) : q \in {r \in shorter : Len(r) = k - 1},
                                         d \in DocPool}

Collections == {q \in DocSeqs(MaxDocs) : \A i, j \in 1..Len(q) : i # j => q[i] # q[j]}

\* the requests: AskRequest's fields before validation
Requests ==
    [query : {"", "   ", " faith ", "faith"},
     n_chunks : {0, 2, 5, 999},
     where : {None, Some("article")},
     where_document : {None, Some("c")}]

\* the exceptions the OpenAI client leaves a call with; all but the builtin
\* TimeoutError are subclasses of openai.APIError
UpstreamErrors ==
    {"AuthenticationError", "RateLimitError", "APIConnectionError", "InternalServerError",
     "TimeoutError"}
APIErrors == UpstreamErrors \ {"TimeoutError"}

\* api.py lines 33-42: the dependencies, or None
create_rag(key, path) ==
    IF ~key THEN None
    ELSE IF ~path THEN None     \* FileNotFoundError of Retriever(), caught at line 41
    ELSE Some("deps")

\* api.py lines 107-110
clamp_n_chunks(v) == Max2(1, Min2(20, v))

\* api.py lines 179-187; an exception no clause catches leaves the handler
\* and the server answers 500
HandlerStatus(exc) ==
    IF exc = "AuthenticationError" THEN 401
    ELSE IF exc = "RateLimitError" THEN 429
    ELSE IF exc \in APIErrors THEN 502
    ELSE 500

\* an n_results that passes n on as it is (C27 rests on the min of line 34)
n_results_Uncapped(n, count) == n

\* retriever.py line 34
n_results(n, count) == Min2(n, count)

\* collection.query: the n nearest documents among those the filters keep
\* (where: equality on the section; where_document: $contains on the text)
store_query(docs, n, where, where_document) ==
    LET Keeps(d) == /\ where # None => d.section = Val(where)
                    /\ where_document # None => FindFrom(d.text, Val(where_document), 1) # 0
    IN Take(SelectSeq(docs, Keeps), n)

\* a snippet that is the whole text (C30 rests on the slice of line 193)
snippet_Whole(text) == text

\* api.py line 193
snippet(text) == SubSeq(text, 1, Min2(300, Len(text))) \o (IF Len(text) > 300 THEN "..." ELSE "")

InitAsk ==
    /\ ak_key \in BOOLEAN
    /\ ak_path \in BOOLEAN
    /\ ak_entry \in {"post_ask", "library"}
    \* lifespan (lines 45-51) sets app.state.rag at startup; a client that
    \* does not run the lifespan (TestClient(app) outside a with block) leaves
    \* it unset
    /\ ak_state_rag \in {"unset",
                         IF create_rag(ak_key, ak_path) = None THEN "none" ELSE "deps"}
    /\ ak_req \in Requests
    /\ ak_docs \in Collections
    /\ ak_pc = "start"
    /\ ak_last = ""
    /\ ak_query = ""
    /\ ak_n = 0
    /\ ak_chunks = <<>>
    /\ ak_answer = ""
    /\ ak_status = 0
    /\ ak_raised = ""
    /\ ak_response = None
    /\ ak_store_queries = <<>>
    /\ ak_chat_calls = 0
    /\ IdleSitemap
    /\ IdleIngest
    /\ IdleChunk
    /\ IdleFilter
    /\ IdleRateLimit
    /\ IdleEmbed
    /\ IdleParse

\* an exception leaves the call: the handler of POST /ask maps it to a
\* status (lines 179-187), a library call passes it on
Fails(exc) ==
    /\ ak_raised' = exc
    /\ ak_status' = IF ak_entry = "post_ask" THEN HandlerStatus(exc) ELSE ak_status
    /\ ak_pc' = "done"

\* api.py lines 68-83: the dependency of POST /ask, which FastAPI resolves
\* before it validates the body
GetRag ==
    /\ ak_pc = "start"
    /\ ak_entry = "post_ask"
    /\ ak_last' = "GetRag"
    /\ IF ak_state_rag = "deps"
       THEN ak_pc' = "validate" /\ ak_status' = ak_status
       ELSE IF ~ak_key
       THEN ak_pc' = "done" /\ ak_status' = 500
       ELSE IF create_rag(ak_key, ak_path) = None
       THEN ak_pc' = "done" /\ ak_status' = 500
       ELSE ak_pc' = "validate" /\ ak_status' = ak_status
    /\ UNCHANGED <<smVars, inVars, ckVars, flVars, rlVars, emVars, paVars, ak_key, ak_path,
                   ak_state_rag, ak_entry, ak_req, ak_docs, ak_query, ak_n, ak_chunks,
                   ak_answer, ak_raised, ak_response, ak_store_queries, ak_chat_calls>>

\* api.py lines 93-110: AskRequest's validators
ValidateBody ==
    /\ ak_pc = "validate"
    /\ ak_last' = "ValidateBody"
    /\ IF Strip(ak_req.query) = ""
       THEN /\ ak_status' = 422
            /\ ak_pc' = "done"
            /\ UNCHANGED <<ak_query, ak_n>>
       ELSE /\ ak_query' = Strip(ak_req.query)
            /\ ak_n' = clamp_n_chunks(ak_req.n_chunks)
            /\ ak_pc' = "embed"
            /\ UNCHANGED ak_status
    /\ UNCHANGED <<smVars, inVars, ckVars, flVars, rlVars, emVars, paVars, ak_key, ak_path,
                   ak_state_rag, ak_entry, ak_req, ak_docs, ak_chunks, ak_answer, ak_raised,
                   ak_response, ak_store_queries, ak_chat_calls>>

\* retriever.py lines 14-19 and 61-63: a library caller builds the Retriever
\* and passes query and n as they are
LibConstruct ==
    /\ ak_pc = "start"
    /\ ak_entry = "library"
    /\ ak_last' = "LibConstruct"
    /\ IF ~ak_path
       THEN /\ ak_raised' = "FileNotFoundError"
            /\ ak_pc' = "done"
            /\ UNCHANGED <<ak_query, ak_n>>
       ELSE /\ ak_query' = ak_req.query
            /\ ak_n' = ak_req.n_chunks
            /\ ak_pc' = "embed"
            /\ UNCHANGED ak_raised
    /\ UNCHANGED <<smVars, inVars, ckVars, flVars, rlVars, emVars, paVars, ak_key, ak_path,
                   ak_state_rag, ak_entry, ak_req, ak_docs, ak_chunks, ak_answer, ak_status,
                   ak_response, ak_store_queries, ak_chat_calls>>

\* retriever.py lines 81 and 95: the query is embedded
EmbedQuery ==
    /\ ak_pc = "embed"
    /\ ak_last' = "EmbedQuery"
    /\ \/ ak_pc' = "query" /\ UNCHANGED <<ak_raised, ak_status>>
       \/ \E exc \in UpstreamErrors : Fails(exc)
    /\ UNCHANGED <<smVars, inVars, ckVars, flVars, rlVars, emVars, paVars, ak_key, ak_path,
                   ak_state_rag, ak_entry, ak_req, ak_docs, ak_query, ak_n, ak_chunks,
                   ak_answer, ak_response, ak_store_queries, ak_chat_calls>>

\* retriever.py lines 22-55; the store refuses an n_results below 1
QueryStore ==
    /\ ak_pc = "query"
    /\ ak_last' = "QueryStore"
    /\ LET count == Len(ak_docs)
           asked == n_results(ak_n, count)
       IN IF count = 0
          THEN /\ ak_chunks' = <<>>
               /\ ak_pc' = "answer"
               /\ UNCHANGED <<ak_store_queries, ak_raised, ak_status>>
          ELSE /\ ak_store_queries' = Append(ak_store_queries, asked)
               /\ IF asked < 1
                  THEN Fails("ValueError") /\ UNCHANGED ak_chunks
                  ELSE /\ ak_chunks' = store_query(ak_docs, asked, ak_req.where,
                                                   ak_req.where_document)
                       /\ ak_pc' = "answer"
                       /\ UNCHANGED <<ak_raised, ak_status>>
    /\ UNCHANGED <<smVars, inVars, ckVars, flVars, rlVars, emVars, paVars, ak_key, ak_path,
                   ak_state_rag, ak_entry, ak_req, ak_docs, ak_query, ak_n, ak_answer,
                   ak_response, ak_chat_calls>>

\* an ask that calls the chat model whatever the chunks (C28 rests on the
\* guard of lines 29 and 57)
Answer_AlwaysCalls ==
    /\ ak_pc = "answer"
    /\ ak_last' = "Answer"
    /\ ak_chat_calls' = ak_chat_calls + 1
    /\ \/ \E content \in {"An answer.", ""} :
             /\ ak_answer' = content
             /\ ak_pc' = IF ak_entry = "post_ask" THEN "respond" ELSE "done"
             /\ UNCHANGED <<ak_raised, ak_status>>
       \/ \E exc \in UpstreamErrors : Fails(exc) /\ UNCHANGED ak_answer
    /\ UNCHANGED <<smVars, inVars, ckVars, flVars, rlVars, emVars, paVars, ak_key, ak_path,
                   ak_state_rag, ak_entry, ak_req, ak_docs, ak_query, ak_n, ak_chunks,
                   ak_response, ak_store_queries>>

\* answer.py lines 19-47 (ask, for a library caller) and 50-75 (ask_async,
\* for POST /ask); a reply without content gives ""
Answer ==
    /\ ak_pc = "answer"
    /\ ak_last' = "Answer"
    /\ IF ak_chunks = <<>>
       THEN /\ ak_answer' = NO_CONTEXT_MESSAGE
            /\ ak_pc' = IF ak_entry = "post_ask" THEN "respond" ELSE "done"
            /\ UNCHANGED <<ak_chat_calls, ak_raised, ak_status>>
       ELSE /\ ak_chat_calls' = ak_chat_calls + 1
            /\ \/ \E content \in {"An answer.", ""} :
                     /\ ak_answer' = content
                     /\ ak_pc' = IF ak_entry = "post_ask" THEN "respond" ELSE "done"
                     /\ UNCHANGED <<ak_raised, ak_status>>
               \/ \E exc \in UpstreamErrors : Fails(exc) /\ UNCHANGED ak_answer
    /\ UNCHANGED <<smVars, inVars, ckVars, flVars, rlVars, emVars, paVars, ak_key, ak_path,
                   ak_state_rag, ak_entry, ak_req, ak_docs, ak_query, ak_n, ak_chunks,
                   ak_response, ak_store_queries>>

\* api.py lines 188-197
Respond ==
    /\ ak_pc = "respond"
    /\ ak_last' = "Respond"
    /\ ak_response' =
          Some([answer |-> ak_answer,
                sources |-> [i \in 1..Len(ak_chunks) |->
                                [title |-> ak_chunks[i].title,
                                 author |-> ak_chunks[i].author,
                                 source_url |-> ak_chunks[i].source_url,
                                 snippet |-> snippet(ak_chunks[i].text)]]])
    /\ ak_status' = 200
    /\ ak_pc' = "done"
    /\ UNCHANGED <<smVars, inVars, ckVars, flVars, rlVars, emVars, paVars, ak_key, ak_path,
                   ak_state_rag, ak_entry, ak_req, ak_docs, ak_query, ak_n, ak_chunks,
                   ak_answer, ak_raised, ak_store_queries, ak_chat_calls>>

NextAsk ==
    \/ GetRag
    \/ ValidateBody
    \/ LibConstruct
    \/ EmbedQuery
    \/ QueryStore
    \/ Answer
    \/ Respond

SpecAsk == InitAsk /\ [][NextAsk]_vars

(***************************************************************************)
(* C27                                                                     *)
(***************************************************************************)
\* the chunks have been retrieved
Retrieved == ak_last \in {"QueryStore", "Answer", "Respond"} /\ ak_raised # "ValueError"
NoFilter == ak_req.where = None /\ ak_req.where_document = None

\* C27: the store is asked at most once, for min(n, count) results; it is
\* not asked at all when the collection is empty, and the chunks are then
\* the empty list; when n is at least 1 and no smaller than the count and
\* there is no filter, the retrieval returns without error exactly as many
\* chunks as the collection holds.
C27_AsksForMinOfNAndCount ==
    /\ Len(ak_store_queries) <= 1
    /\ \A i \in 1..Len(ak_store_queries) :
          ak_store_queries[i] = Min2(ak_n, Len(ak_docs))
    /\ ak_docs = <<>> => ak_store_queries = <<>>
    /\ ak_last = "QueryStore" /\ ak_docs = <<>> => ak_chunks = <<>> /\ ak_pc = "answer"
    /\ ak_last = "QueryStore" /\ ak_n >= 1 /\ ak_n >= Len(ak_docs)
          => /\ ak_pc = "answer"
             /\ ak_raised = ""
             /\ NoFilter => Len(ak_chunks) = Len(ak_docs)
    /\ Retrieved => Len(ak_chunks) <= Min2(ak_n, Len(ak_docs))

\* twenty chunks were asked of a collection of three without a filter: the
\* store was asked for three and gave three
C27_Witness ==
    /\ ak_last = "QueryStore"
    /\ ak_n = 20
    /\ Len(ak_docs) = 3
    /\ NoFilter
    /\ ak_store_queries = <<3>>
    /\ Len(ak_chunks) = 3

(***************************************************************************)
(* C28                                                                     *)
(***************************************************************************)
Answered == ak_last \in {"Answer", "Respond"}

\* C28: ask (a library call) and ask_async (POST /ask) make no
\* chat-completion call before they run; run on an empty chunk list they
\* return the fixed no-context message, raise nothing and make no call; run
\* on one or more chunks they make exactly one call.
C28_NoCallWithoutChunks ==
    /\ ~Answered => ak_chat_calls = 0
    /\ Answered /\ ak_chunks = <<>>
          => /\ ak_chat_calls = 0
             /\ ak_answer = NO_CONTEXT_MESSAGE
             /\ ak_raised = ""
    /\ Answered /\ ak_chunks # <<>> => ak_chat_calls = 1

\* POST /ask on a non-empty collection whose documents the filter all
\* rejects: the response carries the no-context message and no call was made
C28_Witness ==
    /\ ak_entry = "post_ask"
    /\ ak_last = "Respond"
    /\ ak_docs # <<>>
    /\ ak_chunks = <<>>
    /\ ak_response # None
    /\ Val(ak_response).answer = NO_CONTEXT_MESSAGE
    /\ ak_chat_calls = 0

(***************************************************************************)
(* C29                                                                     *)
(***************************************************************************)
\* C29: a finished POST /ask has status 422 when the query is empty or
\* whitespace only, 500 when the API key is missing, 401 after an upstream
\* AuthenticationError, 429 after an upstream RateLimitError and 502 after
\* any other upstream APIError, and in each of these cases returns no answer.
\* Violated: with the key missing (or the index path missing), get_rag
\* answers 500 before the body is validated, so an empty query gets 500.
C29_EachFailureItsOwnStatus ==
    ak_entry = "post_ask" /\ ak_pc = "done"
        => /\ Strip(ak_req.query) = "" => ak_status = 422
           /\ ~ak_key => ak_status = 500
           /\ ak_raised = "AuthenticationError" => ak_status = 401
           /\ ak_raised = "RateLimitError" => ak_status = 429
           /\ ak_raised \in APIErrors \ {"AuthenticationError", "RateLimitError"}
                 => ak_status = 502
           /\ ak_status \in {422, 500, 401, 429, 502} => ak_response = None

(***************************************************************************)
(* C30                                                                     *)
(***************************************************************************)
Sources == IF ak_response = None THEN <<>> ELSE Val(ak_response).sources

\* C30 as stated: every snippet of a response has at most 300 characters.
\* Violated: a text of 301 characters gives a snippet of 303.
C30_AsStated ==
    \A i \in 1..Len(Sources) : Len(Sources[i].snippet) <= 300

\* C30: the sources of a response are the chunks in order; a snippet is the
\* chunk's text when that has at most 300 characters, and otherwise its
\* first 300 characters followed by "...", 303 characters in all.
C30_SnippetIsFirst300PlusEllipsis ==
    /\ ak_response # None => Len(Sources) = Len(ak_chunks)
    /\ \A i \in 1..Len(Sources) :
          LET text == ak_chunks[i].text
              snip == Sources[i].snippet
          IN /\ Len(snip) <= 303
             /\ Len(text) <= 300 => snip = text
             /\ Len(text) > 300 => /\ Len(snip) = 303
                                   /\ SubSeq(snip, 1, 300) = SubSeq(text, 1, 300)
                                   /\ SubSeq(snip, 301, 303) = "..."

\* a response with a source whose text of 301 characters gave a snippet of 303
C30_Witness ==
    \E i \in 1..Len(Sources) :
        /\ Len(ak_chunks[i].text) = 301
        /\ Len(Sources[i].snippet) = 303

(***************************************************************************)
(* C31                                                                     *)
(***************************************************************************)
\* C31: a finished POST /ask on a server whose API key is set and whose
\* index path does not exist has status 503.
\* Violated: _create_rag catches the FileNotFoundError of Retriever() itself
\* (line 41) and returns None, which get_rag reports as 500 'OPENAI_API_KEY
\* not set' (lines 79-80); the except clause of lines 82-83 is never entered.
C31_MissingIndexIs503 ==
    ak_entry = "post_ask" /\ ak_pc = "done" /\ ak_key /\ ~ak_path => ak_status = 503

(***************************************************************************)
(* C32                                                                     *)
(***************************************************************************)
\* the handler has left with sys.exit(0), its save done, failed or skipped
CheckpointFinished ==
    pc = "exited" /\ exit_via \in {"saved", "save_error", "skip_no_articles", "skip_no_embed"}

\* C32: once the checkpoint a cancel signal triggered has finished, no GET is
\* sent any more, with one worker or several.
\* Violated with several workers: the SystemExit of the handler leaves the
\* with block of line 153, whose exit waits for the pool, and the pool runs
\* every task still queued.
C32_NoFetchAfterCheckpoint ==
    [][CheckpointFinished => gets' = gets]_vars

(***************************************************************************)
(* C33                                                                     *)
(***************************************************************************)
\* the records of the first n chunks, each with the embedding at its own index
PairedRecords(n) == {Record(all_chunks[k], embeddings[k]) : k \in 1..n}

\* the number of batches of size that cover n items
Batches(n, size) == (n + size - 1) \div size

\* the embedding loop has run to its end and the write is under way or done
Writing ==
    \/ pc \in {"delete", "create", "add", "written"}
    \/ pc = "exited" /\ exit_via \in {"done", "saved"}

\* C33: while the embedding loop runs, the list holds one embedding for each
\* chunk of the batches done, at the chunk's index and computed from the
\* chunk's text; the write starts with as many embeddings as chunks (in a run
\* no signal restarted, after one embed_batch call per batch of
\* EMBED_BATCH_SIZE); while add_chunks runs, the collection holds exactly the
\* records of the chunks of the batches added, each with its chunk's ID, text
\* and metadata and the embedding at the chunk's index, one record per chunk;
\* after it, one for every chunk; no add of a batch raises in main.
C33_ChunksStayPaired ==
    /\ pc \in {"embed", "embed_wait"}
          => /\ Len(embeddings) = Min2(embed_start, Len(all_chunks))
             /\ embed_start % EMBED_BATCH_SIZE = 0
    /\ (pc \in {"embed", "embed_wait"} \/ Writing)
          => \A k \in 1..Len(embeddings) : embeddings[k] = Embedding(all_chunks[k].text)
    /\ Writing
          => /\ Len(embeddings) = Len(all_chunks)
             /\ sigCount = 0 => embed_calls = Batches(Len(all_chunks), EMBED_BATCH_SIZE)
    /\ exit_via # "add_failed"
    /\ pc = "add"
          => /\ add_start % CHROMA_ADD_BATCH_SIZE = 0
             /\ collection.recs = PairedRecords(Min2(add_start, Len(all_chunks)))
             /\ Cardinality(collection.recs) = Min2(add_start, Len(all_chunks))
    /\ (pc = "written" \/ (pc = "exited" /\ exit_via \in {"done", "saved"}))
          => /\ collection.recs = PairedRecords(Len(all_chunks))
             /\ Cardinality(collection.recs) = Len(all_chunks)

\* three chunks with different texts were embedded in two calls and written
\* in two batches, the third with the third embedding
C33_Witness ==
    /\ pc = "written"
    /\ Len(all_chunks) = 3
    /\ all_chunks[1].text # all_chunks[3].text
    /\ embed_calls = 2
    /\ add_start = 2 * CHROMA_ADD_BATCH_SIZE
    /\ Record(all_chunks[3], Embedding(all_chunks[3].text)) \in collection.recs
    /\ Cardinality(collection.recs) = 3

(***************************************************************************)
(* C34                                                                     *)
(***************************************************************************)
NoBudget == max_sitemap_files = None

\* the length of the longest list a document of the site gives
LongestList ==
    LET lens == {Len(site[u].locs) : u \in DOMAIN site}
    IN CHOOSE n \in lens : \A m \in lens : m <= n

\* the steps a future still takes: to be fetched and consumed, or consumed
FutureWeight(f) == IF f.st = "submitted" THEN 2 ELSE IF f.st = "done" THEN 1 ELSE 0

\* a bound on the steps fetch_all_urls has yet to take: those of its position,
\* three for each queued URL (cut into a batch, fetched, consumed), those of
\* the futures of the batch, and for each URL not yet processed the queue
\* entries its document can add
Variant ==
    LET position ==
            CASE spc = "returned" -> 0
              [] spc \in {"loop", "batch"} -> 1
              [] spc = "root" -> 2 + 3 * LongestList
              [] OTHER -> 3 + 3 * LongestList + (Len(SITEMAP_PATHS) - path_i)
        batch == SumOver(1..Len(futures), [i \in 1..Len(futures) |-> FutureWeight(futures[i])])
    IN position + 3 * Len(to_fetch) + batch
           + 3 * LongestList * Cardinality((DOMAIN site) \ processed)

\* C34 as stated: with no budget, the URLs of no sitemap document are taken
\* (added to the queue or to the collected URLs) more than once.
\* Violated: the entry point is not put in processed, so an entry index that
\* is listed again (by itself or by a sitemap below it) is expanded twice.
C34_AsStated ==
    NoBudget => \A u \in DOMAIN expanded : expanded[u] <= 1

\* C34: with no budget, for every sitemap graph of the model (an index may
\* list itself, the root, or another index that lists it back) and every
\* completion order, fetch_all_urls always has a step to take until it
\* returns, and every step lowers a bound that is never negative, so it
\* returns; the URLs of a document are taken at most once per URL, once more
\* for the entry point, which the processed set does not hold at the start;
\* when the loop has ended the queue is empty.
C34_TerminatesOnCycles ==
    /\ [](NoBudget => /\ RunningOrReturned
                      /\ Variant >= 0
                      /\ \A u \in DOMAIN expanded :
                            expanded[u] <= IF sitemap_url = Some(u) THEN 2 ELSE 1
                      /\ spc = "returned" => to_fetch = <<>>)
    /\ [][NoBudget => Variant' < Variant]_vars

\* an entry index that lists itself: fetched three times, expanded twice, and
\* the traversal has returned
C34_Witness ==
    /\ NoBudget
    /\ spc = "returned"
    /\ sitemap_url = Some(RootUrl)
    /\ RootUrl \in Range(site[RootUrl].locs)
    /\ expanded[RootUrl] = 2
    /\ fetches[RootUrl] = 3
    /\ to_fetch = <<>>

(***************************************************************************)
(* C35                                                                     *)
(***************************************************************************)
\* C35: chunk_article is always at a statement with a step to take or has
\* returned; in the loop the window start never passes the end of the
\* content, the cut of every window lies more than OVERLAP_CHARS past its
\* start, and every turn of the loop moves the start strictly forward, so
\* that the distance to the end of the content, which is never negative,
\* shrinks with every turn until the loop ends.
C35_WindowMovesForward ==
    /\ [](/\ ck_pc \in {"idle", "call", "loop", "done"}
          /\ ck_pc = "loop"
                => /\ ck_start <= Len(ck_content)
                   /\ ck_start < Len(ck_content)
                         => /\ BreakAt(ck_content, ck_start) > ck_start + OVERLAP_CHARS
                            /\ BreakAt(ck_content, ck_start) <= Len(ck_content))
    /\ [][ck_pc = "loop"
             => \/ ck_pc' = "done" /\ ck_start = Len(ck_content)
                \/ /\ ck_pc' = "loop"
                   /\ ck_start' > ck_start
                   /\ Len(ck_content') - ck_start' < Len(ck_content) - ck_start]_vars

\* a content of more than two windows was cut into three chunks or more and
\* the loop has ended at the end of the content
C35_Witness ==
    /\ ck_pc = "done"
    /\ Len(ck_content) > 2 * CHUNK_CHARS
    /\ Len(ck_chunks) >= 3
    /\ ck_start = Len(ck_content)

(***************************************************************************)
(* C36                                                                     *)
(***************************************************************************)
\* no element of the sequence occurs at two positions
NoRepeat(seq) == \A j \in 1..Len(seq) : \A k \in (j + 1)..Len(seq) : seq[j] # seq[k]

\* the pair the ID of a chunk is computed from
IdPair(c) == <<c.source_url, c.chunk_index>>

\* C36: in one ingest run the URL list holds no URL twice, no two articles
\* scraped come from the same URL, and no two chunks built for the index
\* builder, by the main path or by the checkpoint, share the pair
\* (source_url, chunk_index); the chunks of one URL carry the indexes 0, 1, ...
\* in order, the IDs of the chunks are pairwise distinct, and no write fails
\* on a repeated ID.
C36_NoRepeatedPair ==
    /\ NoRepeat(urls)
    /\ NoRepeat([k \in 1..Len(articles) |-> articles[k].url])
    /\ NoRepeat([k \in 1..Len(all_chunks) |-> IdPair(all_chunks[k])])
    /\ \A k \in 1..Len(all_chunks) :
          all_chunks[k].chunk_index =
              Cardinality({j \in 1..(k - 1) :
                              all_chunks[j].source_url = all_chunks[k].source_url})
    /\ NoRepeat([k \in 1..Len(all_chunks) |->
                    chunk_id(all_chunks[k].source_url, all_chunks[k].chunk_index)])
    /\ exit_via # "add_failed"

\* the chunks of two articles were written: two chunks of one URL with the
\* indexes 0 and 1, and a chunk of another URL with the index 0 again
C36_Witness ==
    /\ pc = "written"
    /\ Len(urls) = 2
    /\ Len(articles) = 2
    /\ Len(all_chunks) = 3
    /\ \E j, k \in 1..3 : /\ j # k
                           /\ all_chunks[j].source_url = all_chunks[k].source_url
                           /\ all_chunks[j].chunk_index = 0
                           /\ all_chunks[k].chunk_index = 1
    /\ \E j, k \in 1..3 : /\ all_chunks[j].source_url # all_chunks[k].source_url
                           /\ all_chunks[j].chunk_index = 0
                           /\ all_chunks[k].chunk_index = 0
    /\ Cardinality(collection.recs) = 3


====
